---- MODULE Spec2Model ----
(***************************************************************************)
(* Carnforth Accessible Name Tester: the content script's accessible-name  *)
(* resolver (computeAccessibleName), the category evaluators built on it,  *)
(* and the test orchestrator (runAccessibilityTest / findAndTestElements). *)
(*                                                                         *)
(* Strings are sequences of one-character strings, so that trim, split,    *)
(* concatenation and the text heuristics are computed, not assumed.        *)
(* The only whitespace character of the alphabet is the space.             *)
(* A document is a sequence of element nodes in document order; node 0 is  *)
(* "no element" (null).  Every element has one text node, placed before    *)
(* its element children.                                                   *)
(***************************************************************************)
EXTENDS Integers, Sequences, FiniteSets, TLC

VARIABLES dom, flags, out, edits, target

\* the extension around the content script: the panel's view, the messages
\* on the "carnforthPanel" port in both directions, the background script's
\* outstanding callbacks, the tab stored with the connection, and the
\* number of "testResults" messages posted for each request received
VARIABLES panel, toBackground, toPanel, pending, connection, posted

extension == <<panel, toBackground, toPanel, pending, connection, posted>>

\* the content script's highlighter: the two module-level variables of
\* part_000 (28-32), the overlay elements attached to the page, the timers
\* set with setTimeout and not yet fired, the number of overlay elements
\* created so far, and the messages received (how many, and the last one)
VARIABLES highlightOverlay, removalInProgress, overlays, timers, created, received

highlights == <<highlightOverlay, removalInProgress, overlays, timers, created, received>>

vars == <<dom, flags, out, edits, target,
          panel, toBackground, toPanel, pending, connection, posted,
          highlightOverlay, removalInProgress, overlays, timers, created, received>>

(***************************************************************************)
(* Bounds                                                                  *)
(***************************************************************************)
\* number of attribute changes page scripts make in one exploration
MaxEdits == 2

(***************************************************************************)
(* Strings                                                                 *)
(***************************************************************************)
Lower == <<"a","b","c","d","e","f","g","h","i","j","k","l","m",
           "n","o","p","q","r","s","t","u","v","w","x","y","z">>

Upper == <<"A","B","C","D","E","F","G","H","I","J","K","L","M",
           "N","O","P","Q","R","S","T","U","V","W","X","Y","Z">>

Digits == {"0","1","2","3","4","5","6","7","8","9"}

IsLetter(c) == \E i \in 1..26 : Lower[i] = c \/ Upper[i] = c

IsDigit(c) == c \in Digits

IsSpace(c) == c = " "

toLowerCaseChar(c) ==
  IF \E i \in 1..26 : Upper[i] = c
  THEN Lower[CHOOSE i \in 1..26 : Upper[i] = c]
  ELSE c

toLowerCase(s) == [i \in 1..Len(s) |-> toLowerCaseChar(s[i])]

RECURSIVE trimStart(_)
trimStart(s) ==
  IF s # <<>> /\ IsSpace(Head(s)) THEN trimStart(Tail(s)) ELSE s

RECURSIVE trimEnd(_)
trimEnd(s) ==
  IF s # <<>> /\ IsSpace(s[Len(s)]) THEN trimEnd(SubSeq(s, 1, Len(s) - 1)) ELSE s

\* String.prototype.trim
trim(s) == trimEnd(trimStart(s))

startsWith(s, p) == Len(p) <= Len(s) /\ SubSeq(s, 1, Len(p)) = p

endsWith(s, p) == Len(p) <= Len(s) /\ SubSeq(s, Len(s) - Len(p) + 1, Len(s)) = p

includes(s, p) == \E i \in 0..(Len(s) - Len(p)) : SubSeq(s, i + 1, i + Len(p)) = p

\* String.prototype.split(/\s+/): tokens between runs of whitespace; a leading
\* or trailing run leaves an empty token, "" splits to [""].
RECURSIVE splitWs(_, _, _)
splitWs(s, acc, inRun) ==
  IF s = <<>> THEN acc
  ELSE IF IsSpace(Head(s))
       THEN IF inRun THEN splitWs(Tail(s), acc, TRUE)
            ELSE splitWs(Tail(s), Append(acc, <<>>), TRUE)
       ELSE splitWs(Tail(s),
                    [acc EXCEPT ![Len(acc)] = Append(acc[Len(acc)], Head(s))],
                    FALSE)

split(s) == splitWs(s, << <<>> >>, FALSE)

(***************************************************************************)
(* Text heuristics                                                         *)
(***************************************************************************)
PunctuationChars ==
  {".", ",", "/", "#", "!", "$", "%", "^", "&", "*", ";", ":", "{", "}",
   "=", "-", "_", "`", "~", "(", ")", "[", "]", "\"", "'"}

\* /^[.,\/#!$%\^&\*;:{}=\-_`~()\[\]"']+$/.test(text.trim())
isPunctuation(text) ==
  LET t == trim(text)
  IN  t # <<>> /\ \A i \in 1..Len(t) : t[i] \in PunctuationChars

isWhitespaceOnly(text) == trim(text) = <<>>

FileExtensions ==
  { <<"j","p","g">>, <<"j","p","e","g">>, <<"p","n","g">>, <<"g","i","f">>,
    <<"w","e","b","p">>, <<"s","v","g">>, <<"b","m","p">>, <<"p","d","f">>,
    <<"d","o","c">>, <<"d","o","c","x">>, <<"x","l","s">>, <<"x","l","s","x">>,
    <<"t","x","t">>, <<"c","s","v">>, <<"z","i","p">>, <<"r","a","r">>,
    <<"m","p","3">>, <<"m","p","4">>, <<"w","a","v">>, <<"a","v","i">>,
    <<"m","o","v">> }

\* fileExtPattern: the trimmed text ends with "." and a listed extension (any
\* case); pathPattern only accepts texts fileExtPattern already accepts.
isFilenameInText(text) ==
  LET t == toLowerCase(trim(text))
  IN  \E e \in FileExtensions : endsWith(t, <<".">> \o e)

IsAlnum(c) == IsLetter(c) \/ IsDigit(c)

\* [a-zA-Z0-9]([a-zA-Z0-9\-]{0,61}[a-zA-Z0-9])?
IsDomainLabel(l) ==
  /\ Len(l) >= 1
  /\ Len(l) <= 63
  /\ IsAlnum(l[1])
  /\ IsAlnum(l[Len(l)])
  /\ \A i \in 1..Len(l) : IsAlnum(l[i]) \/ l[i] = "-"

RECURSIVE splitOn(_, _, _)
splitOn(s, ch, acc) ==
  IF s = <<>> THEN acc
  ELSE IF Head(s) = ch THEN splitOn(Tail(s), ch, Append(acc, <<>>))
       ELSE splitOn(Tail(s), ch,
                    [acc EXCEPT ![Len(acc)] = Append(acc[Len(acc)], Head(s))])

\* /^([a-zA-Z0-9]([a-zA-Z0-9\-]{0,61}[a-zA-Z0-9])?\.)+[a-zA-Z]{2,}(\/.*)?$/
domainPattern(t) ==
  LET host   == splitOn(t, "/", << <<>> >>)[1]
      labels == splitOn(host, ".", << <<>> >>)
      tld    == labels[Len(labels)]
  IN  /\ Len(labels) >= 2
      /\ Len(tld) >= 2
      /\ \A i \in 1..Len(tld) : IsLetter(tld[i])
      /\ \A k \in 1..(Len(labels) - 1) : IsDomainLabel(labels[k])

isUrlLike(text) ==
  LET t == trim(text)
  IN  \/ startsWith(t, <<"h","t","t","p",":","/","/">>)
      \/ startsWith(t, <<"h","t","t","p","s",":","/","/">>)
      \/ startsWith(t, <<"w","w","w",".">>)
      \/ domainPattern(t)

GenericLabelTerms ==
  { <<"l","a","b","e","l">>, <<"f","i","e","l","d">>, <<"i","n","p","u","t">>,
    <<"t","e","x","t">>, <<"t","e","x","t","b","o","x">>,
    <<"t","e","x","t","a","r","e","a">>,
    <<"f","o","r","m"," ","f","i","e","l","d">>,
    <<"f","o","r","m"," ","i","n","p","u","t">>,
    <<"n","a","m","e">>,
    <<"e","n","t","e","r"," ","t","e","x","t">>,
    <<"e","n","t","e","r"," ","i","n","p","u","t">>,
    <<"i","m","a","g","e">>, <<"b","u","t","t","o","n">>,
    <<"s","u","b","m","i","t">>, <<"i","c","o","n">>,
    <<"p","i","c","t","u","r","e">>, <<"p","h","o","t","o">>,
    <<"g","r","a","p","h","i","c">> }

isGenericLabel(text) == toLowerCase(trim(text)) \in GenericLabelTerms

GenericTextTerms ==
  { <<"b","u","t","t","o","n">>, <<"c","l","i","c","k">>,
    <<"c","l","i","c","k"," ","h","e","r","e">>,
    <<"c","l","i","c","k"," ","m","e">>, <<"s","u","b","m","i","t">>,
    <<"g","o">>, <<"n","e","x","t">>, <<"p","r","e","v","i","o","u","s">>,
    <<"s","e","n","d">>, <<"o","k">> }

isGenericText(text) == trim(toLowerCase(text)) \in GenericTextTerms

(***************************************************************************)
(* The document                                                            *)
(***************************************************************************)
\* an element: tag name (lower case), parent element (0: child of body),
\* attribute map (its domain is the set of attributes present), the text of
\* its own text node, and the computed display style
Node(tag, parent, attrs, text, display) ==
  [tag |-> tag, parent |-> parent, attrs |-> attrs, text |-> text,
   display |-> display]

Elements(d) == 1..Len(d)

hasAttribute(d, n, a) == a \in DOMAIN d[n].attrs

\* getAttribute(a) === v
attributeIs(d, n, a, v) == hasAttribute(d, n, a) /\ d[n].attrs[a] = v

\* element.id: the id attribute, "" when absent
idOf(d, n) == IF hasAttribute(d, n, "id") THEN d[n].attrs["id"] ELSE <<>>

InputTypes == {"text", "radio", "button", "submit", "reset", "image", "hidden", "checkbox"}

\* element.type: the reflected, normalised type of input and button elements
typeOf(d, n) ==
  IF d[n].tag = "input"
  THEN IF hasAttribute(d, n, "type") /\ d[n].attrs["type"] \in InputTypes
       THEN d[n].attrs["type"] ELSE "text"
  ELSE IF d[n].tag = "button"
  THEN IF hasAttribute(d, n, "type") /\ d[n].attrs["type"] \in {"button", "submit", "reset"}
       THEN d[n].attrs["type"] ELSE "submit"
  ELSE IF d[n].tag = "select" THEN "select-one"
  ELSE IF d[n].tag = "textarea" THEN "textarea"
  ELSE "undefined"

RECURSIVE isAncestor(_, _, _)
isAncestor(d, a, n) ==
  IF d[n].parent = 0 THEN FALSE
  ELSE d[n].parent = a \/ isAncestor(d, a, d[n].parent)

Descendants(d, n) == {m \in Elements(d) : isAncestor(d, n, m)}

Children(d, n) == {m \in Elements(d) : d[m].parent = n}

Min(S) == CHOOSE x \in S : \A y \in S : x <= y

\* first element of S in document order, 0 (null) when S is empty
First(S) == IF S = {} THEN 0 ELSE Min(S)

firstElementChild(d, n) == First(Children(d, n))

\* element.closest(selector), S being the elements the selector matches; the
\* element itself is tried first, then its ancestors, nearest first
RECURSIVE closest(_, _, _)
closest(d, n, S) ==
  IF n = 0 THEN 0
  ELSE IF n \in S THEN n
  ELSE closest(d, d[n].parent, S)

\* element.querySelector(selector), S being the elements the selector matches
querySelector(d, n, S) == First(Descendants(d, n) \cap S)

\* document.querySelectorAll(selector) as the matched elements in document order
RECURSIVE inOrder(_)
inOrder(S) == IF S = {} THEN <<>> ELSE <<Min(S)>> \o inOrder(S \ {Min(S)})

\* document.getElementById: null for the empty id
getElementById(d, id) ==
  IF id = <<>> THEN 0
  ELSE First({m \in Elements(d) : hasAttribute(d, m, "id") /\ d[m].attrs["id"] = id})

\* textContent of n, leaving out the subtree of element x (x = 0: nothing left out)
RECURSIVE textWithout(_, _, _)
RECURSIVE textOfAll(_, _, _)
textWithout(d, n, x) ==
  IF n = x THEN <<>>
  ELSE d[n].text \o textOfAll(d, Children(d, n), x)

textOfAll(d, S, x) ==
  IF S = {} THEN <<>>
  ELSE textWithout(d, Min(S), x) \o textOfAll(d, S \ {Min(S)}, x)

textContent(d, n) == textWithout(d, n, 0)

\* a "#id" selector built from the raw id parses only when the id is a CSS
\* identifier (ids here are made of letters, digits, "-" and "_")
validIdSelector(id) ==
  /\ id # <<>>
  /\ \/ IsLetter(id[1])
     \/ id[1] = "_"
     \/ id[1] = "-" /\ Len(id) >= 2 /\ (IsLetter(id[2]) \/ id[2] \in {"_", "-"})

isElementHidden(d, n) == d[n].display = "none"

(***************************************************************************)
(* Resolution annotations (expando properties on the element)              *)
(***************************************************************************)
NoFlags ==
  [hasBrokenAriaLabelledby |-> FALSE, brokenAriaLabelledbyIds |-> <<>>,
   hasEmptyAriaLabel |-> FALSE, hasPunctuationOnlyAriaLabel |-> FALSE,
   accessibleNameFromTitleOnly |-> FALSE,
   accessibleNameFromLabel |-> FALSE, labelType |-> "none"]

(***************************************************************************)
(* computeAccessibleName                                                   *)
(***************************************************************************)
\* the loop over the ids of aria-labelledby
RECURSIVE labelledbyLoop(_, _, _, _)
labelledbyLoop(d, ids, name, brokenIds) ==
  IF ids = <<>> THEN [name |-> name, brokenIds |-> brokenIds]
  ELSE LET labelElement == getElementById(d, Head(ids))
       IN  IF labelElement # 0
           THEN labelledbyLoop(d, Tail(ids),
                   name \o (IF name # <<>> THEN <<" ">> ELSE <<>>)
                        \o trim(textContent(d, labelElement)),
                   brokenIds)
           ELSE labelledbyLoop(d, Tail(ids), name, Append(brokenIds, Head(ids)))

LabelableTags == {"input", "textarea", "select", "progress", "meter"}

TextContentTags ==
  {"button", "a", "h1", "h2", "h3", "h4", "h5", "h6", "li", "dt", "dd",
   "figure", "figcaption"}

TextContentRoles == {"button", "link", "heading", "listitem"}

rolesThatUseTextContent ==
  {"checkbox", "menuitem", "menuitemcheckbox", "menuitemradio", "option",
   "radio", "tab", "treeitem"}

Returned(name, f) == [threw |-> FALSE, name |-> name, fl |-> f]

Thrown(f) == [threw |-> TRUE, name |-> <<>>, fl |-> f]

\* rules after aria-label: label association, alt, value, title, text content
nameFromContent(d, n, f) ==
  LET tag == d[n].tag
      id  == idOf(d, n)
      labelElement == First({m \in Elements(d) :
                               d[m].tag = "label" /\ attributeIs(d, m, "for", id)})
      Labels == {m \in Elements(d) : d[m].tag = "label"}
      parentLabel == closest(d, n, Labels)
      WithId == {m \in Elements(d) : hasAttribute(d, m, "id") /\ d[m].attrs["id"] = id}
      elementInLabel == querySelector(d, parentLabel, WithId)
      fromLabel(kind) ==
        IF tag \in {"progress", "meter"}
        THEN [f EXCEPT !.accessibleNameFromLabel = TRUE, !.labelType = kind]
        ELSE f
      ImgWithAlt == {m \in Elements(d) :
                       d[m].tag = "img" /\ hasAttribute(d, m, "alt")
                                        /\ d[m].attrs["alt"] # <<>>}
      imgElement == querySelector(d, n, ImgWithAlt)
  IN
  IF id # <<>> /\ tag \in LabelableTags /\ labelElement # 0
  THEN Returned(trim(textContent(d, labelElement)), fromLabel("external"))
  ELSE IF id # <<>> /\ tag \in LabelableTags /\ parentLabel # 0
  THEN IF ~validIdSelector(id)
       THEN Thrown(f)
       ELSE Returned(trim(textWithout(d, parentLabel, elementInLabel)),
                     fromLabel("wrapped"))
  ELSE IF tag \in {"img", "area"} /\ hasAttribute(d, n, "alt")
  THEN Returned(d[n].attrs["alt"], f)
  ELSE IF tag = "input" /\ typeOf(d, n) \in {"button", "submit", "reset"}
          /\ hasAttribute(d, n, "value")
  THEN Returned(d[n].attrs["value"], f)
  ELSE IF tag = "iframe" /\ hasAttribute(d, n, "title")
  THEN Returned(d[n].attrs["title"], f)
  ELSE IF hasAttribute(d, n, "title") /\ d[n].attrs["title"] # <<>>
  THEN Returned(d[n].attrs["title"], [f EXCEPT !.accessibleNameFromTitleOnly = TRUE])
  ELSE IF /\ \/ tag \in TextContentTags
             \/ \E r \in TextContentRoles : attributeIs(d, n, "role", r)
          /\ \/ tag = "a" /\ imgElement # 0 /\ trim(d[imgElement].attrs["alt"]) # <<>>
             \/ trim(textContent(d, n)) # <<>>
  THEN IF tag = "a" /\ imgElement # 0 /\ trim(d[imgElement].attrs["alt"]) # <<>>
       THEN Returned(d[imgElement].attrs["alt"], f)
       ELSE Returned(trim(textContent(d, n)), f)
  ELSE IF \E r \in rolesThatUseTextContent : attributeIs(d, n, "role", r)
  THEN Returned(trim(textContent(d, n)), f)
  ELSE Returned(<<>>, f)

\* nameFromAriaLabel with a blank aria-label falling through to the later
\* sources
nameFromAriaLabelFallingThrough(d, n, f) ==
  IF hasAttribute(d, n, "aria-label") /\ trim(d[n].attrs["aria-label"]) # <<>>
  THEN LET label == d[n].attrs["aria-label"]
       IN  Returned(label,
                    IF isPunctuation(label)
                    THEN [f EXCEPT !.hasPunctuationOnlyAriaLabel = TRUE]
                    ELSE f)
  ELSE nameFromContent(d, n,
         IF hasAttribute(d, n, "aria-label")
         THEN [f EXCEPT !.hasEmptyAriaLabel = TRUE] ELSE f)

\* the aria-label rule and everything after it
nameFromAriaLabel(d, n, f) ==
  IF hasAttribute(d, n, "aria-label")
  THEN LET label == d[n].attrs["aria-label"]
       IN  IF trim(label) = <<>>
           THEN Returned(<<>>, [f EXCEPT !.hasEmptyAriaLabel = TRUE])
           ELSE Returned(label,
                  IF isPunctuation(label)
                  THEN [f EXCEPT !.hasPunctuationOnlyAriaLabel = TRUE]
                  ELSE f)
  ELSE nameFromContent(d, n, f)

\* nameFromLabelledby without the record of the broken references
nameFromLabelledbyUnrecorded(d, n, f) ==
  IF hasAttribute(d, n, "aria-labelledby")
  THEN LET r == labelledbyLoop(d, split(d[n].attrs["aria-labelledby"]), <<>>, <<>>)
       IN  IF r.name # <<>> THEN Returned(r.name, f)
           ELSE nameFromAriaLabel(d, n, f)
  ELSE nameFromAriaLabel(d, n, f)

\* nameFromLabelledby with the broken ids added to those of earlier calls
nameFromLabelledbyAccumulating(d, n, f) ==
  IF hasAttribute(d, n, "aria-labelledby")
  THEN LET r  == labelledbyLoop(d, split(d[n].attrs["aria-labelledby"]), <<>>, <<>>)
           f2 == [f EXCEPT !.hasBrokenAriaLabelledby =
                             (f.brokenAriaLabelledbyIds \o r.brokenIds # <<>>),
                           !.brokenAriaLabelledbyIds =
                             f.brokenAriaLabelledbyIds \o r.brokenIds]
       IN  IF r.name # <<>> THEN Returned(r.name, f2)
           ELSE nameFromAriaLabel(d, n, f2)
  ELSE nameFromAriaLabel(d, n, f)

\* the aria-labelledby rule and everything after it
\* (CHOOSE v \in {e : x \in {a}} : TRUE is e with x bound to the value of a:
\* a call's result is computed once and then named, as the code's const does)
nameFromLabelledby(d, n, f) ==
  CHOOSE c \in {
    IF r.name # <<>> THEN Returned(r.name, r.fl) ELSE nameFromAriaLabel(d, n, r.fl)
    : r \in { IF hasAttribute(d, n, "aria-labelledby")
              THEN CHOOSE v \in {
                     [name |-> l.name,
                      fl |-> [f EXCEPT !.hasBrokenAriaLabelledby = (l.brokenIds # <<>>),
                                       !.brokenAriaLabelledbyIds = l.brokenIds]]
                     : l \in {labelledbyLoop(d, split(d[n].attrs["aria-labelledby"]),
                                             <<>>, <<>>)} } : TRUE
              ELSE [name |-> <<>>, fl |-> f] } } : TRUE

\* the legend that names a fieldset: its first element child, when that is
\* the first legend below it and has text; 0 otherwise
namingLegend(d, n) ==
  LET legend == querySelector(d, n, {m \in Elements(d) : d[m].tag = "legend"})
  IN  IF /\ d[n].tag = "fieldset"
         /\ legend # 0
         /\ legend = firstElementChild(d, n)
         /\ trim(textContent(d, legend)) # <<>>
      THEN legend ELSE 0

\* computeAccessibleName(element) with the element's annotations f: the
\* returned name (or the exception) and the annotations it leaves
computeAccessibleName(d, n, f) ==
  CHOOSE c \in {
    IF legend # 0 THEN Returned(trim(textContent(d, legend)), f)
    ELSE nameFromLabelledby(d, n, f)
    : legend \in {namingLegend(d, n)} } : TRUE

(***************************************************************************)
(* Category evaluators                                                     *)
(* An evaluator returns the exception flag, the list of results it yields  *)
(* (empty for null) and the annotations of all elements afterwards.  A     *)
(* description is the name of the message; hiddenSuffix says whether       *)
(* " (hidden element)" was appended to it.                                 *)
(***************************************************************************)
Obj(v, desc) == [result |-> v, description |-> desc]

\* the evaluation result for element n, with the verdict as it stands
Plain(n, test, o, name) ==
  [element |-> n, test |-> test, result |-> o.result,
   description |-> o.description, hiddenSuffix |-> FALSE,
   accessibleName |-> name]

\* Downgraded with the downgrade applied to every verdict of a hidden element
DowngradedWhateverVerdict(n, test, o, name, isVisible) ==
  IF ~isVisible
  THEN [element |-> n, test |-> test, result |-> "warn",
        description |-> o.description, hiddenSuffix |-> TRUE,
        accessibleName |-> name]
  ELSE Plain(n, test, o, name)

\* "downgrading to warning if hidden"
Downgraded(n, test, o, name, isVisible) ==
  IF ~isVisible /\ o.result = "fail"
  THEN [element |-> n, test |-> test, result |-> "warn",
        description |-> o.description, hiddenSuffix |-> TRUE,
        accessibleName |-> name]
  ELSE Plain(n, test, o, name)

Threw(fl) == [threw |-> TRUE, res |-> <<>>, fl |-> fl]

Yield(r, fl) == [threw |-> FALSE, res |-> <<r>>, fl |-> fl]

Skip(fl) == [threw |-> FALSE, res |-> <<>>, fl |-> fl]

IMAGE_ == <<"i","m","a","g","e"," ">>

IMAGE_OF == <<"i","m","a","g","e"," ","o","f">>

\* name.includes('<') && name.includes('>')
looksLikeMarkup(name) == includes(name, <<"<">>) /\ includes(name, <<">">>)

brokenLabelledby(d, n, f) ==
  hasAttribute(d, n, "aria-labelledby") /\ f.hasBrokenAriaLabelledby

\* testImage without the decorative markers
testImageIgnoringMarkers(d, n, fl) ==
  CHOOSE t \in {
  LET name == c.name
      fl2  == [fl EXCEPT ![n] = c.fl]
      isVisible  == ~isElementHidden(d, n)
      isImageMap == hasAttribute(d, n, "usemap") /\ trim(d[n].attrs["usemap"]) # <<>>
      o == IF name = <<>> THEN Obj("fail", "missing-name")
           ELSE IF isFilenameInText(name) THEN Obj("fail", "filename")
           ELSE IF trim(name) = <<>> THEN Obj("fail", "whitespace-only")
           ELSE IF isPunctuation(name) THEN Obj("fail", "punctuation-only")
           ELSE IF looksLikeMarkup(name) THEN Obj("fail", "html-markup")
           ELSE IF \/ startsWith(toLowerCase(name), IMAGE_)
                   \/ includes(toLowerCase(name), IMAGE_OF)
                THEN Obj("warn", "redundant-image")
           ELSE IF isGenericLabel(name) THEN Obj("warn", "generic")
           ELSE IF Len(name) < 10 /\ isImageMap THEN Obj("warn", "short-image-map-name")
           ELSE Obj("pass", "ok")
      shown == IF o.description \in {"filename", "whitespace-only",
                                     "punctuation-only", "html-markup"}
               THEN <<>> ELSE name
  IN  IF c.threw THEN Threw(fl2)
      ELSE Yield(Downgraded(n, "testImage", o, shown, isVisible), fl2)
  : c \in {computeAccessibleName(d, n, fl[n])} } : TRUE

\* testImage with the filename check after the warn-level checks
testImageFilenameLast(d, n, fl) ==
  CHOOSE t \in {
  LET name == c.name
      fl2  == [fl EXCEPT ![n] = c.fl]
      isVisible  == ~isElementHidden(d, n)
      isImageMap == hasAttribute(d, n, "usemap") /\ trim(d[n].attrs["usemap"]) # <<>>
      hasEmptyAlt == attributeIs(d, n, "alt", <<>>)
      isDecorative == \/ hasEmptyAlt
                      \/ attributeIs(d, n, "aria-hidden", "true")
                      \/ attributeIs(d, n, "role", "presentation")
                      \/ attributeIs(d, n, "role", "none")
      o == IF name = <<>> THEN Obj("fail", "missing-name")
           ELSE IF trim(name) = <<>> THEN Obj("fail", "whitespace-only")
           ELSE IF isPunctuation(name) THEN Obj("fail", "punctuation-only")
           ELSE IF looksLikeMarkup(name) THEN Obj("fail", "html-markup")
           ELSE IF \/ startsWith(toLowerCase(name), IMAGE_)
                   \/ includes(toLowerCase(name), IMAGE_OF)
                THEN Obj("warn", "redundant-image")
           ELSE IF isGenericLabel(name) THEN Obj("warn", "generic")
           ELSE IF Len(name) < 10 /\ isImageMap THEN Obj("warn", "short-image-map-name")
           ELSE IF isFilenameInText(name) THEN Obj("fail", "filename")
           ELSE Obj("pass", "ok")
      shown == IF o.description \in {"filename", "whitespace-only",
                                     "punctuation-only", "html-markup"}
               THEN <<>> ELSE name
  IN  IF c.threw THEN Threw(fl2)
      ELSE IF isDecorative
      THEN Yield(Plain(n, "testImage",
                       IF name = <<>> THEN Obj("pass", "decorative-ok")
                       ELSE Obj("warn", "decorative-with-name"), name), fl2)
      ELSE Yield(Downgraded(n, "testImage", o, shown, isVisible), fl2)
  : c \in {computeAccessibleName(d, n, fl[n])} } : TRUE

testImage(d, n, fl) ==
  CHOOSE t \in {
  LET name == c.name
      fl2  == [fl EXCEPT ![n] = c.fl]
      isVisible  == ~isElementHidden(d, n)
      isImageMap == hasAttribute(d, n, "usemap") /\ trim(d[n].attrs["usemap"]) # <<>>
      hasEmptyAlt == attributeIs(d, n, "alt", <<>>)
      isDecorative == \/ hasEmptyAlt
                      \/ attributeIs(d, n, "aria-hidden", "true")
                      \/ attributeIs(d, n, "role", "presentation")
                      \/ attributeIs(d, n, "role", "none")
      o == IF name = <<>> THEN Obj("fail", "missing-name")
           ELSE IF isFilenameInText(name) THEN Obj("fail", "filename")
           ELSE IF trim(name) = <<>> THEN Obj("fail", "whitespace-only")
           ELSE IF isPunctuation(name) THEN Obj("fail", "punctuation-only")
           ELSE IF looksLikeMarkup(name) THEN Obj("fail", "html-markup")
           ELSE IF \/ startsWith(toLowerCase(name), IMAGE_)
                   \/ includes(toLowerCase(name), IMAGE_OF)
                THEN Obj("warn", "redundant-image")
           ELSE IF isGenericLabel(name) THEN Obj("warn", "generic")
           ELSE IF Len(name) < 10 /\ isImageMap THEN Obj("warn", "short-image-map-name")
           ELSE Obj("pass", "ok")
      shown == IF o.description \in {"filename", "whitespace-only",
                                     "punctuation-only", "html-markup"}
               THEN <<>> ELSE name
  IN  IF c.threw THEN Threw(fl2)
      ELSE IF isDecorative
      THEN Yield(Plain(n, "testImage",
                       IF name = <<>> THEN Obj("pass", "decorative-ok")
                       ELSE Obj("warn", "decorative-with-name"), name), fl2)
      ELSE Yield(Downgraded(n, "testImage", o, shown, isVisible), fl2)
  : c \in {computeAccessibleName(d, n, fl[n])} } : TRUE

hasImplicitLabelParent(d, n) ==
  LET parent == closest(d, d[n].parent, {m \in Elements(d) : d[m].tag = "label"})
  IN  /\ parent # 0
      /\ \/ ~hasAttribute(d, parent, "for")
         \/ d[parent].attrs["for"] = <<>>

testFormControl(d, n, fl) ==
  CHOOSE t \in {
  LET name == c.name
      fl2  == [fl EXCEPT ![n] = c.fl]
      tagName == d[n].tag
      type == typeOf(d, n)
      isVisible == ~isElementHidden(d, n)
      o == IF brokenLabelledby(d, n, c.fl) THEN Obj("fail", "broken-labelledby")
           ELSE IF type \in {"button", "submit", "reset"}
           THEN IF name = <<>> THEN Obj("fail", "missing-name")
                ELSE Obj("pass", "ok")
           ELSE IF type = "hidden" THEN Obj("pass", "hidden-input")
           ELSE IF name = <<>>
           THEN IF hasAttribute(d, n, "placeholder") /\ tagName = "input"
                THEN Obj("fail", "placeholder-only")
                ELSE Obj("fail", "missing-name")
           ELSE IF trim(name) = <<>> THEN Obj("fail", "whitespace-only")
           ELSE IF isPunctuation(name) THEN Obj("fail", "punctuation-only")
           ELSE IF isGenericLabel(name) THEN Obj("fail", "generic")
           ELSE IF isFilenameInText(name) THEN Obj("warn", "filename")
           ELSE IF isUrlLike(name) THEN Obj("warn", "url")
           ELSE IF c.fl.accessibleNameFromTitleOnly THEN Obj("warn", "title-only")
           ELSE IF hasImplicitLabelParent(d, n) THEN Obj("warn", "implicit-label")
           ELSE Obj("pass", "ok")
  IN  IF c.threw THEN Threw(fl2)
      ELSE Yield(Downgraded(n, "testFormControl", o, name, isVisible), fl2)
  : c \in {computeAccessibleName(d, n, fl[n])} } : TRUE

testRadioButton(d, n, fl) ==
  CHOOSE r \in {
  LET formControlResult == [t.res[1] EXCEPT !.test = "testRadioButton"]
      isInFieldset  == closest(d, n, {m \in Elements(d) : d[m].tag = "fieldset"}) # 0
      isInARIAGroup == closest(d, n, {m \in Elements(d) :
                                        attributeIs(d, m, "role", "radiogroup")}) # 0
  IN  IF t.threw THEN t
      ELSE IF formControlResult.result = "fail" THEN Yield(formControlResult, t.fl)
      ELSE IF ~isInFieldset /\ ~isInARIAGroup
      THEN Yield([formControlResult EXCEPT !.result = "fail",
                                           !.description = "radio-not-grouped",
                                           !.hiddenSuffix = FALSE], t.fl)
      ELSE Yield(formControlResult, t.fl)
  : t \in {testFormControl(d, n, fl)} } : TRUE

testSelect(d, n, fl) ==
  CHOOSE r \in {
  LET formControlResult == [t.res[1] EXCEPT !.test = "testSelect"]
      options == inOrder({m \in Descendants(d, n) : d[m].tag = "option"})
      hasEmptyOption ==
        options # <<>> /\ trim(textContent(d, options[1])) = <<>>
      hasWhitespaceOption ==
        \E i \in 1..Len(options) :
           /\ textContent(d, options[i]) # <<>>
           /\ trim(textContent(d, options[i])) = <<>>
  IN  IF t.threw THEN t
      ELSE IF formControlResult.result = "fail" THEN Yield(formControlResult, t.fl)
      ELSE IF hasEmptyOption
      THEN Yield([formControlResult EXCEPT !.result = "fail",
                                           !.description = "empty-first-option",
                                           !.hiddenSuffix = FALSE], t.fl)
      ELSE IF hasWhitespaceOption
      THEN Yield([formControlResult EXCEPT !.result = "fail",
                                           !.description = "whitespace-option",
                                           !.hiddenSuffix = FALSE], t.fl)
      ELSE Yield(formControlResult, t.fl)
  : t \in {testFormControl(d, n, fl)} } : TRUE

testFieldset(d, n, fl) ==
  CHOOSE t \in {
  LET name == c.name
      fl2  == [fl EXCEPT ![n] = c.fl]
      isVisible == ~isElementHidden(d, n)
      legend == querySelector(d, n, {m \in Elements(d) : d[m].tag = "legend"})
      hasLegend == legend # 0
      isFirstChild == hasLegend /\ legend = firstElementChild(d, n)
      emptyLegend == hasLegend /\ trim(textContent(d, legend)) = <<>>
      o == IF hasLegend /\ ~isFirstChild THEN Obj("fail", "legend-not-first-child")
           ELSE IF brokenLabelledby(d, n, c.fl) THEN Obj("fail", "broken-labelledby")
           ELSE IF hasAttribute(d, n, "aria-labelledby") /\ name = <<>>
           THEN Obj("fail", "labelledby-empty-content")
           ELSE IF /\ hasLegend /\ isFirstChild /\ ~emptyLegend
                   /\ \/ hasAttribute(d, n, "aria-label")
                      \/ hasAttribute(d, n, "aria-labelledby")
           THEN Obj("warn", "legend-and-aria")
           ELSE IF hasAttribute(d, n, "aria-label") /\ trim(d[n].attrs["aria-label"]) = <<>>
           THEN Obj("fail", "empty-aria-label")
           ELSE IF hasAttribute(d, n, "aria-label") /\ isPunctuation(d[n].attrs["aria-label"])
           THEN Obj("fail", "punctuation-only-aria-label")
           ELSE IF hasLegend /\ emptyLegend THEN Obj("fail", "empty-legend")
           ELSE IF name = <<>> THEN Obj("fail", "missing-name")
           ELSE IF trim(name) = <<>> THEN Obj("fail", "whitespace-only")
           ELSE IF isPunctuation(name) THEN Obj("fail", "punctuation-only")
           ELSE IF isFilenameInText(name) THEN Obj("fail", "filename")
           ELSE IF isUrlLike(name) THEN Obj("fail", "url")
           ELSE IF c.fl.accessibleNameFromTitleOnly THEN Obj("warn", "title-only")
           ELSE Obj("pass", "ok")
  IN  IF c.threw THEN Threw(fl2)
      ELSE Yield(Downgraded(n, "testFieldset", o, name, isVisible), fl2)
  : c \in {computeAccessibleName(d, n, fl[n])} } : TRUE

\* element.getAttribute(a) is a non-empty string
truthyAttribute(d, n, a) == hasAttribute(d, n, a) /\ d[n].attrs[a] # <<>>

\* the one-character strings of iconChars that are not empty
iconChars == { <<"+">>, <<"-">>, <<"=">>, <<"<">>, <<">">>, <<"*">> }

\* /[^\w\s]/.test(s)
hasSymbol(s) ==
  \E i \in 1..Len(s) : ~(IsAlnum(s[i]) \/ s[i] = "_" \/ IsSpace(s[i]))

\* element.classList
classList(d, n) ==
  IF hasAttribute(d, n, "class")
  THEN {c \in {split(d[n].attrs["class"])[i] :
                  i \in 1..Len(split(d[n].attrs["class"]))} : c # <<>>}
  ELSE {}

iconClassPatterns ==
  { <<"f","a","-">>, <<"f","a","s","-">>, <<"f","a","r","-">>,
    <<"f","a","l","-">>, <<"f","a","d","-">>,
    <<"g","l","y","p","h","i","c","o","n","-">>,
    <<"m","a","t","e","r","i","a","l","-","i","c","o","n","s">>,
    <<"i","c","o","n","-">>, <<"u","i","-","i","c","o","n","-">> }

\* 'i.fa, i.fas, i.far, i.fal, i.fad, span.material-icons, i.icon, .glyphicon'
isIconChild(d, m) ==
  \/ /\ d[m].tag = "i"
     /\ classList(d, m) \cap { <<"f","a">>, <<"f","a","s">>, <<"f","a","r">>,
                               <<"f","a","l">>, <<"f","a","d">>,
                               <<"i","c","o","n">> } # {}
  \/ /\ d[m].tag = "span"
     /\ <<"m","a","t","e","r","i","a","l","-","i","c","o","n","s">> \in classList(d, m)
  \/ <<"g","l","y","p","h","i","c","o","n">> \in classList(d, m)

\* the alphabet has no emoji, so the emoji tests never match
isIconOnly(d, n, accessibleName) ==
  IF \/ truthyAttribute(d, n, "aria-label")
     \/ truthyAttribute(d, n, "aria-labelledby")
     \/ truthyAttribute(d, n, "title")
  THEN FALSE
  ELSE IF d[n].tag = "input" /\ typeOf(d, n) \in {"button", "submit", "reset"}
  THEN /\ hasAttribute(d, n, "value")
       /\ LET value == d[n].attrs["value"]
          IN  \/ Len(value) = 1 /\ value \in iconChars
              \/ Len(value) <= 2 /\ hasSymbol(value)
  ELSE \/ /\ Len(accessibleName) = 1
          /\ Len(trim(accessibleName)) = 1
          /\ accessibleName \in iconChars
       \/ \E c \in classList(d, n) : \E p \in iconClassPatterns : startsWith(c, p)
       \/ /\ \E m \in Descendants(d, n) : isIconChild(d, m)
          /\ Len(trim(textContent(d, n))) <= 2
       \/ Len(accessibleName) <= 2 /\ hasSymbol(accessibleName)

testButton(d, n, fl) ==
  CHOOSE t \in {
  LET name == c.name
      fl2  == [fl EXCEPT ![n] = c.fl]
      isVisible == ~isElementHidden(d, n)
      isInputButton == d[n].tag = "input" /\ typeOf(d, n) \in {"button", "submit", "reset"}
      noText == trim(textContent(d, n)) = <<>>
      o == IF brokenLabelledby(d, n, c.fl) THEN Obj("fail", "broken-labelledby")
           ELSE IF isInputButton /\ ~hasAttribute(d, n, "value")
           THEN Obj("fail", "missing-value-attribute")
           ELSE IF c.fl.hasEmptyAriaLabel THEN Obj("fail", "empty-aria-label")
           ELSE IF c.fl.hasPunctuationOnlyAriaLabel
           THEN Obj("fail", "punctuation-only-aria-label")
           ELSE IF name = <<>>
           THEN IF noText THEN Obj("fail", "no-content-no-aria")
                ELSE Obj("fail", "missing-name")
           ELSE IF trim(name) = <<>> THEN Obj("fail", "whitespace-only")
           ELSE IF isIconOnly(d, n, name) THEN Obj("fail", "icon-only")
           ELSE IF isGenericText(name) THEN Obj("warn", "generic-text")
           ELSE Obj("pass", "ok")
  IN  IF c.threw THEN Threw(fl2)
      ELSE Yield(Downgraded(n, "testButton", o, name, isVisible), fl2)
  : c \in {computeAccessibleName(d, n, fl[n])} } : TRUE

\* landmarkType: the role, or the role the tag implies
landmarkTypeOf(d, n) ==
  IF hasAttribute(d, n, "role") THEN d[n].attrs["role"]
  ELSE CASE d[n].tag = "header"  -> "banner"
         [] d[n].tag = "footer"  -> "contentinfo"
         [] d[n].tag = "aside"   -> "complementary"
         [] d[n].tag = "nav"     -> "navigation"
         [] d[n].tag = "main"    -> "main"
         [] d[n].tag = "section" -> "region"
         [] d[n].tag = "form"    -> "form"
         [] OTHER                -> "undefined"

\* document.querySelectorAll('tag, [role="role"]').length
countTagOrRole(d, tag, role) ==
  Cardinality({m \in Elements(d) : d[m].tag = tag \/ attributeIs(d, m, "role", role)})

testLandmark(d, n, fl) ==
  CHOOSE t \in {
  LET name == c.name
      fl2  == [fl EXCEPT ![n] = c.fl]
      tagName == d[n].tag
      role == IF hasAttribute(d, n, "role") THEN d[n].attrs["role"] ELSE "null"
      landmarkType == landmarkTypeOf(d, n)
      single(tag, type) ==
        /\ tagName = tag \/ landmarkType = type
        /\ countTagOrRole(d, tag, type) <= 1
        /\ name = <<>>
      o == IF single("header", "banner") THEN Obj("pass", "single-banner")
           ELSE IF single("footer", "contentinfo") THEN Obj("pass", "single-contentinfo")
           ELSE IF single("main", "main") THEN Obj("pass", "single-main")
           ELSE IF single("nav", "navigation") THEN Obj("warn", "single-navigation")
           ELSE IF /\ name = <<>>
                   /\ \/ landmarkType \in {"region", "form"}
                      \/ countTagOrRole(d, tagName, landmarkType) > 1
           THEN Obj("fail", "missing-name")
           ELSE IF name # <<>> /\ trim(name) = <<>> THEN Obj("fail", "whitespace-only")
           ELSE IF name = <<>> THEN Obj("pass", "name-not-required")
           ELSE IF landmarkType = "form" /\ isPunctuation(name)
           THEN Obj("fail", "punctuation-only")
           ELSE IF landmarkType = "form" /\ isFilenameInText(name)
           THEN Obj("fail", "filename")
           ELSE IF landmarkType = "form" /\ isUrlLike(name) THEN Obj("fail", "url")
           ELSE IF role = "form" /\ isPunctuation(name) THEN Obj("fail", "punctuation-only")
           ELSE IF role = "form" /\ isFilenameInText(name) THEN Obj("fail", "filename")
           ELSE IF role = "form" /\ isUrlLike(name) THEN Obj("fail", "url")
           ELSE IF c.fl.accessibleNameFromTitleOnly THEN Obj("warn", "title-only")
           ELSE Obj("pass", "ok")
  IN  IF c.threw THEN Threw(fl2)
      ELSE Yield(Plain(n, "testLandmark", o, name), fl2)
  : c \in {computeAccessibleName(d, n, fl[n])} } : TRUE

testMedia(d, n, fl) ==
  CHOOSE t \in {
  LET name == c.name
      fl2  == [fl EXCEPT ![n] = c.fl]
      o == IF name = <<>> THEN Obj("fail", "missing-name")
           ELSE IF trim(name) = <<>> THEN Obj("fail", "whitespace-only")
           ELSE Obj("pass", "ok")
  IN  IF c.threw THEN Threw(fl2)
      ELSE Yield(Plain(n, "testMedia", o, name), fl2)
  : c \in {computeAccessibleName(d, n, fl[n])} } : TRUE

testForm(d, n, fl) ==
  CHOOSE t \in {
  LET name == c.name
      fl2  == [fl EXCEPT ![n] = c.fl]
      isVisible == ~isElementHidden(d, n)
      o == IF brokenLabelledby(d, n, c.fl) THEN Obj("fail", "broken-labelledby")
           ELSE IF hasAttribute(d, n, "aria-labelledby") /\ name = <<>>
           THEN Obj("fail", "labelledby-empty-content")
           ELSE IF hasAttribute(d, n, "aria-label") /\ trim(d[n].attrs["aria-label"]) = <<>>
           THEN Obj("fail", "empty-aria-label")
           ELSE IF hasAttribute(d, n, "aria-label") /\ isPunctuation(d[n].attrs["aria-label"])
           THEN Obj("fail", "punctuation-only-aria-label")
           ELSE IF name = <<>> THEN Obj("fail", "missing-name")
           ELSE IF trim(name) = <<>> THEN Obj("fail", "whitespace-only")
           ELSE IF isPunctuation(name) THEN Obj("fail", "punctuation-only")
           ELSE IF isFilenameInText(name) THEN Obj("fail", "filename")
           ELSE IF isUrlLike(name) THEN Obj("fail", "url")
           ELSE IF c.fl.accessibleNameFromTitleOnly THEN Obj("warn", "title-only")
           ELSE Obj("pass", "ok")
  IN  IF c.threw THEN Threw(fl2)
      ELSE Yield(Downgraded(n, "testForm", o, name, isVisible), fl2)
  : c \in {computeAccessibleName(d, n, fl[n])} } : TRUE

testImageInput(d, n, fl) ==
  CHOOSE t \in {
  LET name == c.name
      fl2  == [fl EXCEPT ![n] = c.fl]
      isVisible == ~isElementHidden(d, n)
      hasAlt == hasAttribute(d, n, "alt")
      alt == d[n].attrs["alt"]
      o == IF ~hasAlt THEN Obj("fail", "missing-alt")
           ELSE IF alt = <<>> THEN Obj("fail", "empty-alt")
           ELSE IF trim(alt) = <<>> THEN Obj("fail", "whitespace-only")
           ELSE IF isPunctuation(alt) THEN Obj("fail", "punctuation-only")
           ELSE IF isGenericLabel(alt) THEN Obj("warn", "generic")
           ELSE IF isFilenameInText(alt) THEN Obj("fail", "filename")
           ELSE Obj("pass", "ok")
  IN  IF c.threw THEN Threw(fl2)
      ELSE Yield(Downgraded(n, "testImageInput", o, name, isVisible), fl2)
  : c \in {computeAccessibleName(d, n, fl[n])} } : TRUE

testArea(d, n, fl) ==
  CHOOSE t \in {
  LET name == c.name
      fl2  == [fl EXCEPT ![n] = c.fl]
      isVisible == ~isElementHidden(d, n)
      o == IF brokenLabelledby(d, n, c.fl) THEN Obj("fail", "broken-labelledby")
           ELSE IF name = <<>> THEN Obj("fail", "missing-name")
           ELSE IF trim(name) = <<>> THEN Obj("fail", "whitespace-only")
           ELSE IF isPunctuation(name) THEN Obj("fail", "punctuation-only")
           ELSE IF isFilenameInText(name) THEN Obj("fail", "filename")
           ELSE IF isGenericLabel(name) THEN Obj("warn", "generic")
           ELSE IF isGenericText(name) THEN Obj("warn", "generic-text")
           ELSE IF c.fl.accessibleNameFromTitleOnly THEN Obj("warn", "title-only")
           ELSE Obj("pass", "ok")
  IN  IF c.threw THEN Threw(fl2)
      ELSE Yield(Downgraded(n, "testArea", o, name, isVisible), fl2)
  : c \in {computeAccessibleName(d, n, fl[n])} } : TRUE

GenericLinkTerms ==
  { <<"c","l","i","c","k">>, <<"c","l","i","c","k"," ","h","e","r","e">>,
    <<"c","l","i","c","k"," ","m","e">>, <<"l","i","n","k">>, <<"m","o","r","e">>,
    <<"r","e","a","d"," ","m","o","r","e">>, <<"d","e","t","a","i","l","s">>,
    <<"l","e","a","r","n"," ","m","o","r","e">>, <<"g","o">>, <<"h","e","r","e">> }

isGenericLinkText(text) == trim(toLowerCase(text)) \in GenericLinkTerms

testLink(d, n, fl) ==
  CHOOSE t \in {
  LET name == c.name
      fl2  == [fl EXCEPT ![n] = c.fl]
      isVisible == ~isElementHidden(d, n)
      containsImage == \E m \in Descendants(d, n) : d[m].tag = "img"
      imageWithAlt == querySelector(d, n, {m \in Elements(d) :
                         d[m].tag = "img" /\ hasAttribute(d, m, "alt")
                                          /\ d[m].attrs["alt"] # <<>>})
      o == IF brokenLabelledby(d, n, c.fl) THEN Obj("fail", "broken-labelledby")
           ELSE IF name = <<>>
           THEN IF containsImage /\ imageWithAlt = 0
                THEN Obj("fail", "image-without-alt")
                ELSE Obj("fail", "missing-name")
           ELSE IF trim(name) = <<>> THEN Obj("fail", "whitespace-only")
           ELSE IF isPunctuation(name) THEN Obj("fail", "punctuation-only")
           ELSE IF isIconOnly(d, n, name) THEN Obj("fail", "icon-only")
           ELSE IF isGenericLinkText(name) THEN Obj("warn", "generic-link-text")
           ELSE IF isUrlLike(name) THEN Obj("warn", "url")
           ELSE Obj("pass", "ok")
  IN  IF c.threw THEN Threw(fl2)
      ELSE Yield(Downgraded(n, "testLink", o, name, isVisible), fl2)
  : c \in {computeAccessibleName(d, n, fl[n])} } : TRUE

HeadingTags == {"h1", "h2", "h3", "h4", "h5", "h6"}

testDialog(d, n, fl) ==
  CHOOSE t \in {
  LET name == c.name
      fl2  == [fl EXCEPT ![n] = c.fl]
      isVisible == ~isElementHidden(d, n)
      hasRedundantHeading ==
        /\ hasAttribute(d, n, "aria-label")
        /\ \E h \in Descendants(d, n) :
              d[h].tag \in HeadingTags /\ trim(textContent(d, h)) = name
      o == IF brokenLabelledby(d, n, c.fl) THEN Obj("fail", "broken-labelledby")
           ELSE IF name = <<>> THEN Obj("fail", "missing-name")
           ELSE IF trim(name) = <<>> THEN Obj("fail", "whitespace-only")
           ELSE IF isPunctuation(name) THEN Obj("fail", "punctuation-only")
           ELSE IF hasRedundantHeading THEN Obj("warn", "redundant-name")
           ELSE Obj("pass", "ok")
  IN  IF c.threw THEN Threw(fl2)
      ELSE Yield(Downgraded(n, "testDialog", o, name, isVisible), fl2)
  : c \in {computeAccessibleName(d, n, fl[n])} } : TRUE

\* getVisibleTextContent: the text outside aria-hidden="true" subtrees
RECURSIVE visibleText(_, _)
RECURSIVE visibleTextOfAll(_, _)
visibleText(d, n) ==
  IF attributeIs(d, n, "aria-hidden", "true") THEN <<>>
  ELSE d[n].text \o visibleTextOfAll(d, Children(d, n))

visibleTextOfAll(d, S) ==
  IF S = {} THEN <<>>
  ELSE visibleText(d, Min(S)) \o visibleTextOfAll(d, S \ {Min(S)})

hasAriaHiddenContent(d, n) ==
  /\ \E m \in Descendants(d, n) : attributeIs(d, m, "aria-hidden", "true")
  /\ trim(visibleText(d, n)) = <<>>

\* the elements aria-labelledby refers to, in id-list order (empty ids and
\* missing elements are skipped)
RECURSIVE referencedElements(_, _)
referencedElements(d, ids) ==
  IF ids = <<>> THEN <<>>
  ELSE (IF getElementById(d, Head(ids)) # 0
        THEN <<getElementById(d, Head(ids))>> ELSE <<>>)
       \o referencedElements(d, Tail(ids))

\* tabpanelReferencesEmptyName followed, when it answers true, by
\* getLabelledbyElementsInfo: between them computeAccessibleName runs on
\* every referenced element, and an exception of any of them escapes
RECURSIVE namesOfReferenced(_, _, _, _)
namesOfReferenced(d, refs, fl, names) ==
  IF refs = <<>> THEN [threw |-> FALSE, names |-> names, fl |-> fl]
  ELSE CHOOSE r \in {
         IF c.threw
         THEN [threw |-> TRUE, names |-> names,
               fl |-> [fl EXCEPT ![Head(refs)] = c.fl]]
         ELSE namesOfReferenced(d, Tail(refs), [fl EXCEPT ![Head(refs)] = c.fl],
                                Append(names, c.name))
         : c \in {computeAccessibleName(d, Head(refs), fl[Head(refs)])} } : TRUE

tabpanelReferencesEmptyName(d, n, fl) ==
  IF ~hasAttribute(d, n, "aria-labelledby")
  THEN [threw |-> FALSE, value |-> FALSE, fl |-> fl, description |-> "none"]
  ELSE CHOOSE t \in {
       LET refs == referencedElements(d, split(d[n].attrs["aria-labelledby"]))
           value == \E i \in 1..Len(r.names) : trim(r.names[i]) = <<>>
           hasEmpty == \E i \in 1..Len(r.names) :
                          r.names[i] # <<>> /\ trim(r.names[i]) = <<>>
           hasHiddenOnly == \E i \in 1..Len(r.names) :
                          r.names[i] = <<>> /\ hasAriaHiddenContent(d, refs[i])
       IN  [threw |-> r.threw,
            value |-> value, fl |-> r.fl,
            description |-> IF hasEmpty THEN "tabpanel-references-empty-name"
                            ELSE IF hasHiddenOnly THEN "tabpanel-references-hidden-only"
                            ELSE "tabpanel-references-no-name"]
       : r \in {namesOfReferenced(d,
                  referencedElements(d, split(d[n].attrs["aria-labelledby"])),
                  fl, <<>>)} } : TRUE

testAriaWidget(d, n, fl) ==
  CHOOSE t \in {
  LET name == c.name
      fl2  == [fl EXCEPT ![n] = c.fl]
      role == IF hasAttribute(d, n, "role") THEN d[n].attrs["role"] ELSE "null"
      isVisible == ~isElementHidden(d, n)
      early == IF brokenLabelledby(d, n, c.fl) THEN Obj("fail", "broken-labelledby")
               ELSE IF name = <<>> THEN Obj("fail", "missing-name")
               ELSE IF trim(name) = <<>> THEN Obj("fail", "whitespace-only")
               ELSE IF isPunctuation(name) THEN Obj("fail", "punctuation-only")
               ELSE IF role = "tab" /\ hasAriaHiddenContent(d, n)
               THEN Obj("fail", "icon-only-tab")
               ELSE Obj("none", "none")
  IN  IF c.threw THEN Threw(fl2)
      ELSE IF early.result # "none"
      THEN Yield(Downgraded(n, "testAriaWidget", early, name, isVisible), fl2)
      ELSE IF role # "tabpanel"
      THEN Yield(Downgraded(n, "testAriaWidget", Obj("pass", "ok"), name, isVisible), fl2)
      ELSE CHOOSE w \in {
             IF t.threw THEN Threw(t.fl)
             ELSE IF t.value
             THEN Yield(Downgraded(n, "testAriaWidget", Obj("fail", t.description),
                                   <<>>, isVisible), t.fl)
             ELSE Yield(Downgraded(n, "testAriaWidget", Obj("pass", "ok"), name,
                                   isVisible), t.fl)
             : t \in {tabpanelReferencesEmptyName(d, n, fl2)} } : TRUE
  : c \in {computeAccessibleName(d, n, fl[n])} } : TRUE

\* the accessible-name ladder shared by testProgress and testMeter
rangeResult(d, n, fl, test) ==
  CHOOSE t \in {
  LET name == c.name
      fl2  == [fl EXCEPT ![n] = c.fl]
      isVisible == ~isElementHidden(d, n)
      o == IF brokenLabelledby(d, n, c.fl) THEN Obj("fail", "broken-labelledby")
           ELSE IF name = <<>> THEN Obj("fail", "missing-name")
           ELSE IF trim(name) = <<>> THEN Obj("fail", "whitespace-only")
           ELSE IF isPunctuation(name) THEN Obj("fail", "punctuation-only")
           ELSE IF isGenericLabel(name) THEN Obj("warn", "generic")
           ELSE IF c.fl.accessibleNameFromTitleOnly THEN Obj("warn", "title-only")
           ELSE IF c.fl.accessibleNameFromLabel /\ c.fl.labelType = "wrapped"
           THEN Obj("warn", "wrapped-label")
           ELSE Obj("pass", "ok")
  IN  IF c.threw THEN Threw(fl2)
      ELSE Yield(Downgraded(n, test, o, name, isVisible), fl2)
  : c \in {computeAccessibleName(d, n, fl[n])} } : TRUE

testProgress(d, n, fl) == rangeResult(d, n, fl, "testProgress")

testMeter(d, n, fl) == rangeResult(d, n, fl, "testMeter")

testIframe(d, n, fl) ==
  CHOOSE t \in {
  LET name == c.name
      fl2  == [fl EXCEPT ![n] = c.fl]
      isVisible == ~isElementHidden(d, n)
      o == IF brokenLabelledby(d, n, c.fl) THEN Obj("fail", "broken-labelledby")
           ELSE IF name = <<>> THEN Obj("fail", "missing-name")
           ELSE IF trim(name) = <<>> THEN Obj("fail", "whitespace-only")
           ELSE IF isPunctuation(name) THEN Obj("fail", "punctuation-only")
           ELSE IF Len(name) < 5 THEN Obj("warn", "too-short")
           ELSE Obj("pass", "ok")
  IN  IF c.threw THEN Threw(fl2)
      ELSE Yield(Downgraded(n, "testIframe", o, name, isVisible), fl2)
  : c \in {computeAccessibleName(d, n, fl[n])} } : TRUE

testSVGImage(d, n, fl) ==
  CHOOSE t \in {
  LET name == c.name
      fl2  == [fl EXCEPT ![n] = c.fl]
      isVisible == ~isElementHidden(d, n)
      titleElement == querySelector(d, n, {m \in Elements(d) : d[m].tag = "title"})
      hasTitle == titleElement # 0
      titleContent == IF hasTitle THEN textContent(d, titleElement) ELSE <<>>
      isDecorative == \/ attributeIs(d, n, "aria-hidden", "true")
                      \/ attributeIs(d, n, "role", "presentation")
                      \/ attributeIs(d, n, "role", "none")
      o == IF brokenLabelledby(d, n, c.fl) THEN Obj("fail", "broken-labelledby")
           ELSE IF name = <<>> THEN Obj("fail", "missing-name")
           ELSE IF trim(name) = <<>> THEN Obj("fail", "whitespace-only")
           ELSE IF isPunctuation(name) THEN Obj("fail", "punctuation-only")
           ELSE IF looksLikeMarkup(name) THEN Obj("fail", "markup")
           ELSE IF isFilenameInText(name) THEN Obj("fail", "filename")
           ELSE IF isGenericLabel(name) THEN Obj("warn", "generic")
           ELSE IF hasTitle /\ titleContent # <<>> /\ trim(titleContent) = <<>>
           THEN Obj("warn", "empty-title-element")
           ELSE Obj("pass", "ok")
      shown == IF o.description = "markup" THEN <<>> ELSE name
  IN  IF c.threw THEN Threw(fl2)
      ELSE IF isDecorative
      THEN Yield(Plain(n, "testSVGImage",
                       IF name = <<>> THEN Obj("pass", "decorative")
                       ELSE Obj("warn", "decorative-with-name"), name), fl2)
      ELSE Yield(Downgraded(n, "testSVGImage", o, shown, isVisible), fl2)
  : c \in {computeAccessibleName(d, n, fl[n])} } : TRUE

UrlTlds ==
  { <<"c","o","m">>, <<"o","r","g">>, <<"n","e","t">>, <<"e","d","u">>,
    <<"g","o","v">>, <<"i","o">>, <<"c","o">>, <<"u","s">>, <<"u","k">>,
    <<"c","a">>, <<"a","u">>, <<"d","e">>, <<"f","r">> }

isUrlInText(text) ==
  LET t == toLowerCase(trim(text))
  IN  \/ startsWith(t, <<"h","t","t","p",":","/","/">>)
      \/ startsWith(t, <<"h","t","t","p","s",":","/","/">>)
      \/ startsWith(t, <<"w","w","w",".">>)
      \/ \E tld \in UrlTlds : \E i \in 1..Len(t) :
            /\ t[i] = "."
            /\ i + Len(tld) <= Len(t)
            /\ SubSeq(t, i + 1, i + Len(tld)) = tld
            /\ \/ i + Len(tld) = Len(t)
               \/ IsSpace(t[i + Len(tld) + 1])
               \/ t[i + Len(tld) + 1] = "/"

testElementWithRoleImg(d, n, fl) ==
  CHOOSE t \in {
  LET name == c.name
      fl2  == [fl EXCEPT ![n] = c.fl]
      isVisible == ~isElementHidden(d, n)
      lower == toLowerCase(name)
      o == IF brokenLabelledby(d, n, c.fl) THEN Obj("fail", "broken-labelledby")
           ELSE IF name = <<>> THEN Obj("fail", "missing-name")
           ELSE IF isWhitespaceOnly(name) THEN Obj("fail", "whitespace-only")
           ELSE IF isPunctuation(name) THEN Obj("fail", "punctuation-only")
           ELSE IF looksLikeMarkup(name) THEN Obj("fail", "markup")
           ELSE IF isFilenameInText(name) THEN Obj("fail", "filename")
           ELSE IF isUrlInText(name) THEN Obj("fail", "url")
           ELSE IF startsWith(lower, IMAGE_) \/ includes(lower, IMAGE_OF)
           THEN Obj("warn", "redundant-image")
           ELSE IF isGenericLabel(name) THEN Obj("warn", "generic")
           ELSE Obj("pass", "ok")
      shown == IF o.description \in {"whitespace-only", "punctuation-only", "markup",
                                     "filename", "url"}
               THEN <<>> ELSE name
  IN  IF c.threw THEN Threw(fl2)
      ELSE Yield(Downgraded(n, "testElementWithRoleImg", o, shown, isVisible), fl2)
  : c \in {computeAccessibleName(d, n, fl[n])} } : TRUE

NativelyNamedTags == {"a", "button", "input", "select", "textarea", "iframe"}

SelfNamingRoles ==
  {"presentation", "none", "button", "link", "checkbox", "menuitem", "tab",
   "menuitemcheckbox", "menuitemradio", "radio", "switch", "textbox"}

ContainerTags ==
  {"h1", "h2", "h3", "h4", "h5", "h6", "li", "dt", "dd", "figure", "figcaption",
   "p", "div", "span"}

\* parseInt(tabindex) < 0
parsesNegative(s) ==
  LET t == trimStart(s)
  IN  /\ Len(t) >= 2
      /\ t[1] = "-"
      /\ IsDigit(t[2])
      /\ \E i \in 2..Len(t) :
            /\ t[i] # "0"
            /\ \A j \in 2..i : IsDigit(t[j])

testElementWithTabindex(d, n, fl) ==
  CHOOSE t \in {
  LET role == IF hasAttribute(d, n, "role") THEN d[n].attrs["role"] ELSE "null"
      name == c.name
      fl2  == [fl EXCEPT ![n] = c.fl]
      tabindex == IF hasAttribute(d, n, "tabindex") THEN d[n].attrs["tabindex"] ELSE <<>>
      isVisible == ~isElementHidden(d, n)
      o == IF brokenLabelledby(d, n, c.fl) THEN Obj("fail", "broken-labelledby")
           ELSE IF name = <<>> THEN Obj("fail", "missing-name")
           ELSE IF trim(name) = <<>> THEN Obj("fail", "whitespace-only")
           ELSE Obj("pass", "ok")
  IN  IF d[n].tag \in NativelyNamedTags \/ role \in SelfNamingRoles THEN Skip(fl)
      ELSE IF c.threw THEN Threw(fl2)
      ELSE IF tabindex # <<>> /\ parsesNegative(tabindex) THEN Skip(fl2)
      ELSE IF /\ d[n].tag \in ContainerTags \/ role \in {"heading", "listitem"}
              /\ trim(textContent(d, n)) # <<>>
      THEN Skip(fl2)
      ELSE Yield(Downgraded(n, "testElementWithTabindex", o, name, isVisible), fl2)
  : c \in {computeAccessibleName(d, n, fl[n])} } : TRUE

\* ---------------------------------------------------------------------
\* The test run
\* ---------------------------------------------------------------------

\* one compound selector: tag ("*" for any), attributes that must be
\* present, attribute values that must match, :not([attr=value]) and
\* :not(tag) exclusions
Sel(tag, has, eq, ne, notTag) ==
  [tag |-> tag, has |-> has, eq |-> eq, ne |-> ne, notTag |-> notTag]

Tag(t) == Sel(t, {}, {}, {}, {})

Role(r) == Sel("*", {}, {<<"role", r>>}, {}, {})

InputType(t) == Sel("input", {}, {<<"type", t>>}, {}, {})

matchesCompound(d, n, c) ==
  /\ c.tag = "*" \/ d[n].tag = c.tag
  /\ d[n].tag \notin c.notTag
  /\ \A a \in c.has : hasAttribute(d, n, a)
  /\ \A p \in c.eq : attributeIs(d, n, p[1], p[2])
  /\ \A p \in c.ne : ~attributeIs(d, n, p[1], p[2])

\* document.querySelectorAll(selector), a selector being a list of
\* alternatives, in document order
querySelectorAll(d, selector) ==
  inOrder({n \in Elements(d) : \E c \in selector : matchesCompound(d, n, c)})

Entry(selector, test) == [selector |-> selector, test |-> test]

ExcludedInputTypes == {"hidden", "button", "submit", "reset", "radio", "image"}

elementsToTest ==
  << Entry({Sel("img", {}, {}, {<<"role", "presentation">>, <<"role", "none">>}, {})},
           "testImage"),
     Entry({Sel("input", {}, {}, {<<"type", t>> : t \in ExcludedInputTypes}, {})},
           "testFormControl"),
     Entry({InputType("radio")}, "testRadioButton"),
     Entry({InputType("image")}, "testImageInput"),
     Entry({Tag("textarea")}, "testFormControl"),
     Entry({Tag("select")}, "testSelect"),
     Entry({Tag("fieldset")}, "testFieldset"),
     Entry({Role("group")}, "testFieldset"),
     Entry({Tag("form")}, "testForm"),
     Entry({Role("form")}, "testForm"),
     Entry({Tag("button")}, "testButton"),
     Entry({Role("button")}, "testButton"),
     Entry({InputType("button")}, "testButton"),
     Entry({InputType("submit")}, "testButton"),
     Entry({InputType("reset")}, "testButton"),
     Entry({Sel("a", {"href"}, {}, {}, {})}, "testLink"),
     Entry({Role("link")}, "testLink"),
     Entry({Sel("area", {"href"}, {}, {}, {})}, "testArea"),
     Entry({Tag("form")}, "testLandmark"),
     Entry({Tag("header"), Role("banner")}, "testLandmark"),
     Entry({Tag("aside"), Role("complementary")}, "testLandmark"),
     Entry({Tag("footer"), Role("contentinfo")}, "testLandmark"),
     Entry({Tag("main"), Role("main")}, "testLandmark"),
     Entry({Tag("nav"), Role("navigation")}, "testLandmark"),
     Entry({Sel("section", {"aria-label"}, {}, {}, {}),
            Sel("section", {"aria-labelledby"}, {}, {}, {}),
            Sel("*", {"aria-label"}, {<<"role", "region">>}, {}, {}),
            Sel("*", {"aria-labelledby"}, {<<"role", "region">>}, {}, {})},
           "testLandmark"),
     Entry({Role("search")}, "testLandmark"),
     Entry({Tag("progress")}, "testProgress"),
     Entry({Role("progressbar")}, "testProgress"),
     Entry({Tag("meter")}, "testMeter"),
     Entry({Role("meter")}, "testMeter"),
     Entry({Sel("svg", {}, {<<"role", "img">>}, {}, {})}, "testSVGImage"),
     Entry({Sel("div", {}, {<<"role", "img">>}, {}, {})}, "testElementWithRoleImg"),
     Entry({Sel("span", {}, {<<"role", "img">>}, {}, {})}, "testElementWithRoleImg"),
     Entry({Sel("*", {}, {<<"role", "img">>}, {}, {"svg", "div", "span"})},
           "testElementWithRoleImg"),
     Entry({Role("checkbox")}, "testAriaWidget"),
     Entry({Role("combobox")}, "testAriaWidget"),
     Entry({Role("dialog")}, "testDialog"),
     Entry({Role("listbox")}, "testAriaWidget"),
     Entry({Role("menu")}, "testAriaWidget"),
     Entry({Role("menuitem")}, "testAriaWidget"),
     Entry({Role("radio")}, "testAriaWidget"),
     Entry({Role("radiogroup")}, "testAriaWidget"),
     Entry({Role("slider")}, "testAriaWidget"),
     Entry({Role("tab")}, "testAriaWidget"),
     Entry({Role("tablist")}, "testAriaWidget"),
     Entry({Role("tabpanel")}, "testAriaWidget"),
     Entry({Role("textbox")}, "testFormControl"),
     Entry({Role("tree")}, "testAriaWidget"),
     Entry({Role("treeitem")}, "testAriaWidget"),
     Entry({Tag("iframe")}, "testIframe"),
     Entry({Sel("audio", {"controls"}, {}, {}, {})}, "testMedia"),
     Entry({Sel("video", {"controls"}, {}, {}, {})}, "testMedia"),
     Entry({Role("video")}, "testMedia"),
     Entry({Sel("*", {"tabindex"}, {}, {<<"tabindex", <<"-", "1">> >>}, {})},
           "testElementWithTabindex") >>

\* testFunction(element)
testFunction(test, d, n, fl) ==
  CASE test = "testImage" -> testImage(d, n, fl)
    [] test = "testFormControl" -> testFormControl(d, n, fl)
    [] test = "testRadioButton" -> testRadioButton(d, n, fl)
    [] test = "testImageInput" -> testImageInput(d, n, fl)
    [] test = "testSelect" -> testSelect(d, n, fl)
    [] test = "testFieldset" -> testFieldset(d, n, fl)
    [] test = "testForm" -> testForm(d, n, fl)
    [] test = "testButton" -> testButton(d, n, fl)
    [] test = "testLink" -> testLink(d, n, fl)
    [] test = "testArea" -> testArea(d, n, fl)
    [] test = "testLandmark" -> testLandmark(d, n, fl)
    [] test = "testProgress" -> testProgress(d, n, fl)
    [] test = "testMeter" -> testMeter(d, n, fl)
    [] test = "testSVGImage" -> testSVGImage(d, n, fl)
    [] test = "testElementWithRoleImg" -> testElementWithRoleImg(d, n, fl)
    [] test = "testAriaWidget" -> testAriaWidget(d, n, fl)
    [] test = "testDialog" -> testDialog(d, n, fl)
    [] test = "testIframe" -> testIframe(d, n, fl)
    [] test = "testMedia" -> testMedia(d, n, fl)
    [] test = "testElementWithTabindex" -> testElementWithTabindex(d, n, fl)

\* the loop of findAndTestElements over the matched elements; an exception
\* leaves the loop at once
RECURSIVE testEach(_, _, _, _, _)
testEach(d, test, elements, fl, results) ==
  IF elements = <<>> THEN [threw |-> FALSE, res |-> results, fl |-> fl]
  ELSE CHOOSE t \in {
         IF r.threw THEN [threw |-> TRUE, res |-> results, fl |-> r.fl]
         ELSE testEach(d, test, Tail(elements), r.fl, results \o r.res)
         : r \in {testFunction(test, d, Head(elements), fl)} } : TRUE

\* try { ... return results } catch (error) { return [] }
findAndTestElements(d, entry, fl) ==
  CHOOSE t \in {
    IF r.threw THEN [res |-> <<>>, fl |-> r.fl, caught |-> TRUE]
    ELSE [res |-> r.res, fl |-> r.fl, caught |-> FALSE]
    : r \in {testEach(d, entry.test, querySelectorAll(d, entry.selector), fl, <<>>)}
  } : TRUE

\* the spread of the entries lo..hi of the array literal, in order; the
\* range is halved so that the evaluation nests to the logarithm of its
\* length only
RECURSIVE spreadRange(_, _, _, _)
spreadRange(d, lo, hi, fl) ==
  IF lo > hi THEN [elements |-> <<>>, fl |-> fl, caught |-> {}]
  ELSE IF lo = hi
  THEN CHOOSE t \in {
         [elements |-> r.res, fl |-> r.fl,
          caught |-> IF r.caught THEN {lo} ELSE {}]
         : r \in {findAndTestElements(d, elementsToTest[lo], fl)} } : TRUE
  ELSE CHOOSE t \in {
         CHOOSE u \in {
           [elements |-> l.elements \o r.elements, fl |-> r.fl,
            caught |-> l.caught \cup r.caught]
           : r \in {spreadRange(d, ((lo + hi) \div 2) + 1, hi, l.fl)} } : TRUE
         : l \in {spreadRange(d, lo, (lo + hi) \div 2, fl)} } : TRUE

spread(d, i, fl, results, caught) ==
  CHOOSE t \in {
    [elements |-> results \o r.elements, fl |-> r.fl,
     caught |-> caught \cup r.caught]
    : r \in {spreadRange(d, i, Len(elementsToTest), fl)} } : TRUE

\* countOf that takes every result for one with the verdict asked for
countOfAny(elements, verdict) ==
  Cardinality({i \in 1..Len(elements) : elements[i].result # "none"})

countOf(elements, verdict) ==
  Cardinality({i \in 1..Len(elements) : elements[i].result = verdict})

runAccessibilityTest(d, fl) ==
  CHOOSE t \in {
    [elements |-> r.elements,
     counts |-> [total    |-> Len(r.elements),
                 failed   |-> countOf(r.elements, "fail"),
                 warnings |-> countOf(r.elements, "warn"),
                 passing  |-> countOf(r.elements, "pass")],
     caught |-> r.caught,
     fl |-> r.fl]
    : r \in {spread(d, 1, fl, <<>>, {})} } : TRUE

\* ---------------------------------------------------------------------
\* Pages under test
\* ---------------------------------------------------------------------

PAY == <<"P","a","y">>

CITY == <<"C","i","t","y">>

SAVE == <<"S","a","v","e">>

\* "image a.png"
IMAGE_FILE == <<"i","m","a","g","e"," ","a",".","p","n","g">>

NoAttrs == [a \in {} |-> <<>>]

\* two elements a reference can resolve to: #x with text, #e without
Referenced(parent) ==
  << Node("span", parent, "id" :> <<"x">>, PAY, "block"),
     Node("span", parent, "id" :> <<"e">>, <<>>, "block") >>

\* <input title="City">
PageInput ==
  << Node("input", 0, "title" :> CITY, <<>>, "block") >> \o Referenced(0)

\* <input id="a" title="City"> <label for="a"></label>
PageLabelled ==
  << Node("input", 0, ("id" :> <<"a">>) @@ ("title" :> CITY), <<>>, "block"),
     Node("label", 0, "for" :> <<"a">>, <<>>, "block") >> \o Referenced(0)

\* <button>Save</button>
PageButton ==
  << Node("button", 0, NoAttrs, SAVE, "block") >> \o Referenced(0)

\* <img alt="Pay">
PageImg ==
  << Node("img", 0, "alt" :> PAY, <<>>, "block") >> \o Referenced(0)

\* <fieldset><legend>City</legend><input type="radio" aria-label="Pay"></fieldset>
PageFieldset ==
  << Node("fieldset", 0, NoAttrs, <<>>, "block"),
     Node("legend", 1, NoAttrs, CITY, "block"),
     Node("input", 1, ("type" :> "radio") @@ ("aria-label" :> PAY), <<>>, "block") >>
  \o Referenced(0)

\* <fieldset aria-labelledby="q"><legend></legend></fieldset>
PageGroup ==
  << Node("fieldset", 0, "aria-labelledby" :> <<"q">>, <<>>, "block"),
     Node("legend", 1, NoAttrs, <<>>, "block") >> \o Referenced(0)

\* <input type="radio" title="City"> outside any group
PageRadio ==
  << Node("input", 0, ("type" :> "radio") @@ ("title" :> CITY), <<>>, "block") >>
  \o Referenced(0)

\* <input aria-label="Save"> <label>Pay<input id="1"></label> <input aria-label="Pay">
PageWrapped ==
  << Node("input", 0, "aria-label" :> SAVE, <<>>, "block"),
     Node("label", 0, NoAttrs, PAY, "block"),
     Node("input", 2, "id" :> <<"1">>, <<>>, "block"),
     Node("input", 0, "aria-label" :> PAY, <<>>, "block") >> \o Referenced(0)

\* <nav></nav> <nav aria-label="Pay"></nav>
PageNav ==
  << Node("nav", 0, NoAttrs, <<>>, "block"),
     Node("nav", 0, "aria-label" :> PAY, <<>>, "block") >> \o Referenced(0)

\* <video controls></video>
PageVideo ==
  << Node("video", 0, "controls" :> <<>>, <<>>, "block") >> \o Referenced(0)

\* <input type="submit" value="" title="City">
PageSubmit ==
  << Node("input", 0, ("type" :> "submit") @@ ("value" :> <<>>) @@ ("title" :> CITY),
          <<>>, "block") >> \o Referenced(0)

\* <form title="City"></form>
PageForm ==
  << Node("form", 0, "title" :> CITY, <<>>, "block") >> \o Referenced(0)

\* <nav></nav> <div role="navigation"></div>
PageNavRole ==
  << Node("nav", 0, NoAttrs, <<>>, "block"),
     Node("div", 0, "role" :> "navigation", <<>>, "block") >> \o Referenced(0)

\* <header role="navigation"></header>
PageHeader ==
  << Node("header", 0, "role" :> "navigation", <<>>, "block") >> \o Referenced(0)

\* <img alt="">
PageDecorative ==
  << Node("img", 0, "alt" :> <<>>, <<>>, "block") >> \o Referenced(0)

\* <img aria-hidden="true">
PageAriaHidden ==
  << Node("img", 0, "aria-hidden" :> "true", <<>>, "block") >> \o Referenced(0)

\* <input type="radio" role="radiogroup" aria-label="Pay">
PageRadioRole ==
  << Node("input", 0, ("type" :> "radio") @@ ("role" :> "radiogroup")
                      @@ ("aria-label" :> PAY), <<>>, "block") >> \o Referenced(0)

\* each page with the element whose attributes change
\* <input aria-labelledby=" x">
PageSpaced ==
  << Node("input", 0, "aria-labelledby" :> <<" ", "x">>, <<>>, "block") >>
    \o Referenced(0)

\* <div role="tab" aria-label="Pay"><span aria-hidden="true">Save</span></div>
PageTab ==
  << Node("div", 0, ("role" :> "tab") @@ ("aria-label" :> PAY), <<>>, "block"),
     Node("span", 1, "aria-hidden" :> "true", SAVE, "block") >> \o Referenced(0)

\* <input type="submit" aria-label="Pay">
PageSubmitLabelled ==
  << Node("input", 0, ("type" :> "submit") @@ ("aria-label" :> PAY), <<>>, "block") >>
    \o Referenced(0)

Pages ==
  { [dom |-> PageInput, target |-> 1],
    [dom |-> PageLabelled, target |-> 1],
    [dom |-> PageButton, target |-> 1],
    [dom |-> PageImg, target |-> 1],
    [dom |-> PageFieldset, target |-> 1],
    [dom |-> PageGroup, target |-> 1],
    [dom |-> PageRadio, target |-> 1],
    [dom |-> PageWrapped, target |-> 3],
    [dom |-> PageNav, target |-> 1],
    [dom |-> PageVideo, target |-> 1],
    [dom |-> PageSubmit, target |-> 1],
    [dom |-> PageForm, target |-> 1],
    [dom |-> PageNavRole, target |-> 2],
    [dom |-> PageHeader, target |-> 1],
    [dom |-> PageDecorative, target |-> 1],
    [dom |-> PageAriaHidden, target |-> 1],
    [dom |-> PageRadioRole, target |-> 1],
    [dom |-> PageSpaced, target |-> 1],
    [dom |-> PageTab, target |-> 1],
    [dom |-> PageSubmitLabelled, target |-> 1] }

\* the attribute writes a page script can make on the element
LabelValues == { <<>>, <<" ">>, PAY, <<"!">>, IMAGE_FILE }

LabelledbyValues ==
  { <<"x">>, <<"q">>, <<"e"," ","x">>, <<"x"," ","e">>, <<" ","q">> }

Changes ==
  {<<"aria-label", v>> : v \in LabelValues}
    \cup {<<"aria-labelledby", v>> : v \in LabelledbyValues}
    \cup {<<"title", CITY>>}

Removable == {"aria-label", "aria-labelledby", "title"}

\* the texts a page script can give a legend
LegendTexts == { <<>>, CITY }

\* a document none of whose elements has been evaluated
Fresh(d) == [n \in Elements(d) |-> NoFlags]

Idle == [op |-> "none", node |-> 0, name |-> <<>>, threw |-> FALSE,
         elements |-> <<>>, counts |-> [total |-> 0, failed |-> 0,
                                        warnings |-> 0, passing |-> 0],
         caught |-> {}]

\* the id of the inspected tab; 0 stands for no tab id
TabId == 1

\* the DevTools panel is not open: no port, no listener on it
Closed ==
  /\ panel = [status |-> "closed", disabled |-> FALSE, inspectedTabId |-> 0,
              runs |-> 0, selectedTab |-> "failures", testResults |-> <<>>,
              lists |-> "empty", navigatedSinceRun |-> FALSE]
  /\ toBackground = <<>>
  /\ toPanel = <<>>
  /\ pending = {}
  /\ connection = [script |-> "none", tabId |-> 0, updates |-> 0]
  /\ posted = <<>>

\* the content script's highlighter before any highlight message: no
\* overlay, no removal in progress, no timer (part_000:28-32)
NoHighlight ==
  /\ highlightOverlay = 0
  /\ removalInProgress = FALSE
  /\ overlays = {}
  /\ timers = <<>>
  /\ created = 0
  /\ received = [count |-> 0, last |-> "none"]

\* the content script in a loaded page
Loaded(pg, display) ==
  /\ dom = [pg.dom EXCEPT ![pg.target].display = display]
  /\ target = pg.target
  /\ flags = Fresh(pg.dom)
  /\ out = Idle
  /\ edits = 0

Init ==
  \E pg \in Pages : \E display \in {"block", "none"} :
    /\ Loaded(pg, display)
    /\ Closed
    /\ NoHighlight

\* a caller resolves the name of the element
ComputeName ==
  \E c \in {computeAccessibleName(dom, target, flags[target])} :
      /\ flags' = [flags EXCEPT ![target] = c.fl]
      /\ out' = [Idle EXCEPT !.op = "name", !.node = target, !.name = c.name,
                             !.threw = c.threw]
      /\ UNCHANGED <<dom, edits, target>>
      /\ UNCHANGED extension
      /\ UNCHANGED highlights

\* the runTest message: one pass over the page
RunTest ==
  \E r \in {runAccessibilityTest(dom, flags)} :
      /\ flags' = r.fl
      /\ out' = [Idle EXCEPT !.op = "run", !.elements = r.elements,
                             !.counts = r.counts, !.caught = r.caught]
      /\ UNCHANGED <<dom, edits, target>>
      /\ UNCHANGED extension
      /\ UNCHANGED highlights

\* element.setAttribute(a, v) by the page
SetAttribute(a, v) ==
  /\ edits < MaxEdits
  /\ ~attributeIs(dom, target, a, v)
  /\ dom' = [dom EXCEPT ![target].attrs =
               [x \in DOMAIN @ \cup {a} |-> IF x = a THEN v ELSE @[x]]]
  /\ edits' = edits + 1
  /\ out' = Idle
  /\ UNCHANGED <<flags, target>>
  /\ UNCHANGED extension
  /\ UNCHANGED highlights

\* element.removeAttribute(a) by the page
RemoveAttribute(a) ==
  /\ edits < MaxEdits
  /\ hasAttribute(dom, target, a)
  /\ dom' = [dom EXCEPT ![target].attrs = [x \in DOMAIN @ \ {a} |-> @[x]]]
  /\ edits' = edits + 1
  /\ out' = Idle
  /\ UNCHANGED <<flags, target>>
  /\ UNCHANGED extension
  /\ UNCHANGED highlights

\* legend.textContent = v by the page
SetTextContent(n, v) ==
  /\ edits < MaxEdits
  /\ dom[n].tag = "legend"
  /\ dom[n].text # v
  /\ dom' = [dom EXCEPT ![n].text = v]
  /\ edits' = edits + 1
  /\ out' = Idle
  /\ UNCHANGED <<flags, target>>
  /\ UNCHANGED extension
  /\ UNCHANGED highlights

Next ==
  \/ ComputeName
  \/ RunTest
  \/ \E c \in Changes : SetAttribute(c[1], c[2])
  \/ \E a \in Removable : RemoveAttribute(a)
  \/ \E n \in Elements(dom) : \E v \in LegendTexts : SetTextContent(n, v)

Spec == Init /\ [][Next]_vars

\* ---------------------------------------------------------------------
\* The panel, the port and the background script
\* ---------------------------------------------------------------------

\* clicks on the Run button in one session
MaxRuns == 2

\* navigations of the inspected tab in one session
MaxUpdates == 1

\* the tabs of the panel
Tabs == {"failures", "warnings", "all"}

\* the two background scripts of the repository
Scripts == {"background.js", "part_001"}

page == <<dom, flags, out, edits, target>>

\* { action: "testResults", results: ... }; results is the Test Run or
\* an { error } object
TestResults(results) ==
  [action |-> "testResults", results |-> results, error |-> FALSE]

\* results: { error: "..." }
ErrorResults == [defined |-> TRUE, error |-> TRUE, elements |-> <<>>]

\* results: the Test Run r of the content script
TestRun(r) == [defined |-> TRUE, error |-> FALSE, elements |-> r.elements]

\* the results of a message that has none
Undefined == [defined |-> FALSE, error |-> FALSE, elements |-> <<>>]

\* { action: "pageNavigated", url }
PageNavigated == [action |-> "pageNavigated", results |-> Undefined, error |-> FALSE]

\* { error: "..." }: a message with neither action nor results
BareError == [action |-> "undefined", results |-> Undefined, error |-> TRUE]

\* port.postMessage(message) ending the callback p of the background script
postMessage(p, message) ==
  /\ toPanel' = Append(toPanel, message)
  /\ pending' = pending \ {p}
  /\ posted' = IF message.action = "testResults"
                THEN [posted EXCEPT ![p.id] = @ + 1]
                ELSE posted

\* the callback p goes on to its next asynchronous call
awaits(p, stage, tabId) ==
  /\ pending' = (pending \ {p}) \cup {[p EXCEPT !.stage = stage, !.tabId = tabId]}
  /\ UNCHANGED <<toPanel, posted>>

\* the panel opens: chrome.runtime.connect reaches the onConnect listener
\* of the installed background script
onConnect(script, inspectedTabId) ==
  /\ panel.status = "closed"
  /\ panel' = [panel EXCEPT !.status = "ready", !.inspectedTabId = inspectedTabId]
  /\ connection' = [script |-> script, tabId |-> 0, updates |-> 0]
  /\ toBackground' = IF inspectedTabId # 0
                      THEN <<[action |-> "setTabId", tabId |-> inspectedTabId]>>
                      ELSE <<>>
  /\ UNCHANGED <<toPanel, pending, posted>>
  /\ UNCHANGED page
  /\ UNCHANGED highlights

\* the panel's runTest(): a click or key press on the Run button
runTest ==
  /\ panel.status # "closed"
  /\ panel.runs < MaxRuns
  /\ panel' = [panel EXCEPT !.status = "running", !.disabled = TRUE,
                            !.runs = @ + 1, !.lists = "analyzing",
                            !.navigatedSinceRun = FALSE]
  /\ toBackground' = Append(toBackground,
                            [action |-> "runTest", tabId |-> panel.inspectedTabId])
  /\ UNCHANGED <<toPanel, pending, connection, posted>>
  /\ UNCHANGED page
  /\ UNCHANGED highlights

\* the background script's port.onMessage listener takes a "runTest" or a
\* "setTabId", which background.js has no branch for
portOnMessage ==
  /\ toBackground # <<>>
  /\ LET message == Head(toBackground)
         id == Len(posted) + 1
         tabId == IF message.tabId # 0 THEN message.tabId ELSE connection.tabId
         first == IF connection.script = "part_001" /\ tabId # 0
                  THEN [id |-> id, stage |-> "tabExists", tabId |-> tabId]
                  ELSE [id |-> id, stage |-> "tabsQuery", tabId |-> 0]
     IN  /\ toBackground' = Tail(toBackground)
         /\ IF message.action = "runTest"
            THEN /\ pending' = pending \cup {first}
                 /\ posted' = Append(posted, 0)
                 /\ UNCHANGED connection
            ELSE /\ connection' =
                      IF connection.script = "part_001" /\ message.tabId # 0
                      THEN [connection EXCEPT !.tabId = message.tabId]
                      ELSE connection
                 /\ UNCHANGED <<pending, posted>>
  /\ UNCHANGED <<panel, toPanel>>
  /\ UNCHANGED page
  /\ UNCHANGED highlights

\* the chrome.tabs.onUpdated listener of part_001: the inspected tab has
\* finished loading or changed its URL
tabsOnUpdated ==
  /\ connection.script = "part_001"
  /\ connection.updates < MaxUpdates
  /\ connection' = [connection EXCEPT !.updates = @ + 1]
  /\ toPanel' = IF connection.tabId = TabId THEN Append(toPanel, PageNavigated)
                ELSE toPanel
  /\ UNCHANGED <<panel, toBackground, pending, posted>>
  /\ UNCHANGED page
  /\ UNCHANGED highlights

\* the callback of chrome.tabs.query({active, currentWindow})
tabsQuery(p, tabs) ==
  /\ p \in pending
  /\ p.stage = "tabsQuery"
  /\ IF tabs = 0
     THEN /\ postMessage(p, IF connection.script = "background.js"
                            THEN BareError
                            ELSE TestResults(ErrorResults))
          /\ UNCHANGED connection
     ELSE IF connection.script = "background.js"
     THEN /\ awaits(p, "executeScript", tabs)
          /\ UNCHANGED connection
     ELSE /\ connection' = [connection EXCEPT !.tabId = tabs]
          /\ awaits(p, "tabExists", tabs)
  /\ UNCHANGED <<panel, toBackground>>
  /\ UNCHANGED page
  /\ UNCHANGED highlights

\* the callback of tabExists in runTestOnTab; executeScript may throw at
\* once, which the try block around it catches
tabExists(p, exists, threw) ==
  /\ p \in pending
  /\ p.stage = "tabExists"
  /\ IF ~exists \/ threw
     THEN postMessage(p, TestResults(ErrorResults))
     ELSE awaits(p, "executeScript", p.tabId)
  /\ UNCHANGED <<panel, toBackground, connection>>
  /\ UNCHANGED page
  /\ UNCHANGED highlights

\* the callback of chrome.scripting.executeScript
executeScript(p, lastError) ==
  /\ p \in pending
  /\ p.stage = "executeScript"
  /\ IF lastError
     THEN postMessage(p, TestResults(ErrorResults))
     ELSE awaits(p, "sendMessage", p.tabId)
  /\ UNCHANGED <<panel, toBackground, connection>>
  /\ UNCHANGED page
  /\ UNCHANGED highlights

\* safelySendMessage(tabId, {action: "runAccessibilityTest"}, callback)
\* when the content script's listener runs the pass and responds
contentScriptResponds(p) ==
  \E r \in {runAccessibilityTest(dom, flags)} :
      /\ flags' = r.fl
      /\ out' = [Idle EXCEPT !.op = "run", !.elements = r.elements,
                             !.counts = r.counts, !.caught = r.caught]
      /\ UNCHANGED <<dom, edits, target>>
      /\ postMessage(p, TestResults(TestRun(r)))

safelySendMessage(p) ==
  /\ p \in pending
  /\ p.stage = "sendMessage"
  /\ contentScriptResponds(p)
  /\ UNCHANGED <<panel, toBackground, connection>>
  /\ UNCHANGED highlights

\* the same callback called with null: chrome.runtime.lastError is set, or
\* sendMessage threw, because no response arrived
safelySendMessageFailed(p) ==
  /\ p \in pending
  /\ p.stage = "sendMessage"
  /\ postMessage(p, TestResults(ErrorResults))
  /\ UNCHANGED <<panel, toBackground, connection>>
  /\ UNCHANGED page
  /\ UNCHANGED highlights

\* results.elements.filter(el => el.result === verdict)
filter(elements, verdict) == SelectSeq(elements, LAMBDA el : el.result = verdict)

\* the counts processTestResults computes anew from the list
panelCounts(results) ==
  [total |-> Len(results.elements),
   fail  |-> Len(filter(results.elements, "fail")),
   warn  |-> Len(filter(results.elements, "warn")),
   pass  |-> Len(filter(results.elements, "pass"))]

\* processTestResults(results) in the panel
processTestResults(results) ==
  /\ panel' =
       IF ~results.defined \/ results.error
       THEN [panel EXCEPT !.disabled = FALSE, !.status = "error"]
       ELSE [panel EXCEPT !.disabled = FALSE, !.status = "results",
                          !.testResults = <<results>>, !.lists = "results",
                          !.selectedTab = IF panelCounts(results).fail > 0
                                          THEN "failures" ELSE @]
  /\ UNCHANGED toBackground

\* handlePageNavigation(url) in the panel
handlePageNavigation ==
  /\ panel' = [panel EXCEPT !.status = "page-changed", !.testResults = <<>>,
                            !.lists = "empty", !.navigatedSinceRun = TRUE]
  /\ toBackground' =
       IF panel.inspectedTabId # 0
       THEN Append(toBackground,
                   [action |-> "setTabId", tabId |-> panel.inspectedTabId])
       ELSE toBackground

\* the panel's port.onMessage listener
panelOnMessage ==
  /\ toPanel # <<>>
  /\ toPanel' = Tail(toPanel)
  /\ IF Head(toPanel).action = "testResults"
     THEN processTestResults(Head(toPanel).results)
     ELSE IF Head(toPanel).action = "pageNavigated"
     THEN handlePageNavigation
     ELSE UNCHANGED <<panel, toBackground>>
  /\ UNCHANGED <<pending, connection, posted>>
  /\ UNCHANGED page
  /\ UNCHANGED highlights

\* activateTab(tabElement): a click on a tab of the panel
activateTab(tab) ==
  /\ panel.status # "closed"
  /\ panel.selectedTab # tab
  /\ panel' = [panel EXCEPT !.selectedTab = tab]
  /\ UNCHANGED <<toBackground, toPanel, pending, connection, posted>>
  /\ UNCHANGED page
  /\ UNCHANGED highlights

\* what the browser does once a message or a callback is due
Dispatch ==
  \/ portOnMessage
  \/ \E p \in pending : \E tabs \in {0, TabId} : tabsQuery(p, tabs)
  \/ \E p \in pending : \E exists, threw \in BOOLEAN : tabExists(p, exists, threw)
  \/ \E p \in pending : \E lastError \in BOOLEAN : executeScript(p, lastError)
  \/ \E p \in pending : safelySendMessage(p)
  \/ \E p \in pending : safelySendMessageFailed(p)
  \/ panelOnMessage

PanelInit ==
  \E pg \in Pages : \E display \in {"block", "none"} :
    /\ Loaded(pg, display)
    /\ Closed
    /\ NoHighlight

PanelNext ==
  \/ \E script \in Scripts : \E inspectedTabId \in {0, TabId} :
       onConnect(script, inspectedTabId)
  \/ runTest
  \/ \E tab \in Tabs : activateTab(tab)
  \/ tabsOnUpdated
  \/ Dispatch

\* the browser delivers every posted message and calls every callback it
\* was handed; nobody is obliged to click
PanelSpec == PanelInit /\ [][PanelNext]_vars /\ WF_vars(Dispatch)

\* ---------------------------------------------------------------------
\* The content script's highlighter (part_000: 28-32, 3031-3417)
\* ---------------------------------------------------------------------
\* The panel asks for a highlight when an issue is selected and for its
\* removal when it is deselected; the background script forwards both to
\* the content script.  An overlay element is named by the number of its
\* creation, 0 is null.  Time is counted in milliseconds and advances in
\* steps that divide both delays; a timer is due when nothing remains of
\* its delay, and due timers run before time advances, oldest first.
\* The "removeHighlight" the background script sends at the start of a run
\* finds the highlighter as NoHighlight in PanelSpec, where no highlight
\* was ever asked for, and leaves it so.

\* messages the content script receives in one exploration
MaxMessages == 4

\* setTimeout(() => cleanupAllHighlights(), 100)
RemovalDelay == 100

\* setTimeout(() => highlightElement(element, scrollIntoView), 150)
RetryDelay == 150

RECURSIVE gcd(_, _)
gcd(a, b) == IF b = 0 THEN a ELSE gcd(b, a % b)

\* the step of the clock
Quantum == gcd(RemovalDelay, RetryDelay)

\* elements of the page a selector of a "highlightElement" message finds
Highlightable == {1, 2}

\* the highlighter's variables as one value, and back
highlighter ==
  [highlightOverlay |-> highlightOverlay, removalInProgress |-> removalInProgress,
   overlays |-> overlays, timers |-> timers, created |-> created]

becomes(h) ==
  /\ highlightOverlay' = h.highlightOverlay
  /\ removalInProgress' = h.removalInProgress
  /\ overlays' = h.overlays
  /\ timers' = h.timers
  /\ created' = h.created

setTimeout(h, callback, element, delay) ==
  [h EXCEPT !.timers = Append(@, [callback |-> callback, element |-> element,
                                  remaining |-> delay])]

\* cleanupAllHighlights with its last assignment left out
cleanupAllHighlightsKeepingFlag(h) ==
  [h EXCEPT !.highlightOverlay = 0, !.overlays = {}]

\* removes the tracked overlay and every element that looks like one, then
\* resets the state; every DOM call is inside a try, and the assignments to
\* the undeclared currentlyHighlighted and isHighlightInProgress create
\* globals, the script not being in strict mode
cleanupAllHighlights(h) ==
  [h EXCEPT !.highlightOverlay = 0, !.overlays = {}, !.removalInProgress = FALSE]

\* a new div is assigned to highlightOverlay and appended to the container
createHighlightOverlay(h) ==
  [h EXCEPT !.created = @ + 1,
            !.highlightOverlay = h.created + 1,
            !.overlays = @ \cup {h.created + 1}]

\* highlightElement without its call of cleanupAllHighlights
highlightElementKeepingOverlays(h, element, sized) ==
  IF h.removalInProgress
  THEN setTimeout(h, "highlightElement", element, RetryDelay)
  ELSE IF sized THEN createHighlightOverlay(h) ELSE h

\* sized: the element, or one of its ancestors, has a rectangle that is
\* not 0 by 0; otherwise applyHighlight creates nothing
highlightElement(h, element, sized) ==
  IF h.removalInProgress
  THEN setTimeout(h, "highlightElement", element, RetryDelay)
  ELSE CHOOSE v \in {IF sized THEN createHighlightOverlay(c) ELSE c :
                       c \in {cleanupAllHighlights(h)}} : TRUE

\* the second declaration of the name in the script, which is the one in
\* effect
removeHighlightOverlay(h) ==
  IF h.removalInProgress
  THEN h
  ELSE IF h.highlightOverlay # 0 /\ h.highlightOverlay \in h.overlays
       THEN setTimeout([h EXCEPT !.removalInProgress = TRUE],
                       "cleanupAllHighlights", 0, RemovalDelay)
       ELSE cleanupAllHighlights([h EXCEPT !.removalInProgress = TRUE])

\* the content script's message listener, action "highlightElement":
\* element is what the selector finds, 0 when it finds nothing
onHighlightElement(element, sized) ==
  /\ received.count < MaxMessages
  /\ received' = [count |-> received.count + 1, last |-> "highlightElement"]
  /\ IF element # 0
     THEN becomes(highlightElement(highlighter, element, sized))
     ELSE UNCHANGED <<highlightOverlay, removalInProgress, overlays, timers, created>>
  /\ UNCHANGED page
  /\ UNCHANGED extension

\* the content script's message listener, action "removeHighlight"
onRemoveHighlight ==
  /\ received.count < MaxMessages
  /\ received' = [count |-> received.count + 1, last |-> "removeHighlight"]
  /\ becomes(removeHighlightOverlay(highlighter))
  /\ UNCHANGED page
  /\ UNCHANGED extension

\* the position of the oldest timer that is due, 0 when none is
due(ts) ==
  IF \E i \in DOMAIN ts : ts[i].remaining = 0
  THEN Min({i \in DOMAIN ts : ts[i].remaining = 0})
  ELSE 0

\* ts without its i-th timer
clearTimeout(ts, i) ==
  [k \in 1..(Len(ts) - 1) |-> IF k < i THEN ts[k] ELSE ts[k + 1]]

\* the event loop runs the callback of the oldest due timer
timerFires(sized) ==
  /\ due(timers) # 0
  /\ \E t \in {timers[due(timers)]} :
       \E h \in {[highlighter EXCEPT !.timers = clearTimeout(timers, due(timers))]} :
         IF t.callback = "cleanupAllHighlights"
         THEN becomes(cleanupAllHighlights(h))
         ELSE becomes(highlightElement(h, t.element, sized))
  /\ UNCHANGED received
  /\ UNCHANGED page
  /\ UNCHANGED extension

\* time passes while timers wait and none is due
tick ==
  /\ timers # <<>>
  /\ due(timers) = 0
  /\ timers' = [i \in DOMAIN timers |->
                  [timers[i] EXCEPT !.remaining = @ - Quantum]]
  /\ UNCHANGED <<highlightOverlay, removalInProgress, overlays, created, received>>
  /\ UNCHANGED page
  /\ UNCHANGED extension

HighlightInit ==
  \E pg \in {[dom |-> PageTab, target |-> 1]} :
    /\ Loaded(pg, "block")
    /\ Closed
    /\ NoHighlight

HighlightNext ==
  \/ \E element \in Highlightable \cup {0} : \E sized \in BOOLEAN :
       onHighlightElement(element, sized)
  \/ onRemoveHighlight
  \/ \E sized \in BOOLEAN : timerFires(sized)
  \/ tick

\* timers fire and time passes; nobody is obliged to send a message
HighlightSpec ==
  HighlightInit /\ [][HighlightNext]_vars
  /\ WF_vars(tick) /\ WF_vars(\E sized \in BOOLEAN : timerFires(sized))

\* ---------------------------------------------------------------------
\* Properties
\* ---------------------------------------------------------------------

\* C1: in the result list of a test run, no Evaluation Result of an element
\* that is hidden has the verdict Fail: a failure of a hidden element is
\* reported as Warn with the hidden-element suffix, in every evaluator.
HiddenDowngrade ==
  out.op = "run" =>
    \A i \in 1..Len(out.elements) :
      isElementHidden(dom, out.elements[i].element) =>
        /\ out.elements[i].result # "fail"
        /\ out.elements[i].hiddenSuffix => out.elements[i].result = "warn"

\* C2: after any sequence of attribute changes and evaluation passes, the
\* results of a test run and the annotation flags left on the elements are
\* those of the same run on a copy of the current document that was never
\* evaluated before.
HistoryIndependence ==
  out.op = "run" =>
    LET fresh == runAccessibilityTest(dom, Fresh(dom))
    IN  /\ out.elements = fresh.elements
        /\ flags = fresh.fl

\* C3: every Evaluation Result of an element whose aria-labelledby lists an
\* id that no element of the document has is a reported defect, whatever
\* other name sources the element has: the verdict is Fail, or Warn when
\* the element is hidden, and never Pass.
BrokenReferenceReported ==
  out.op = "run" =>
    \A i \in 1..Len(out.elements) :
      LET n == out.elements[i].element
          ids == IF hasAttribute(dom, n, "aria-labelledby")
                 THEN split(dom[n].attrs["aria-labelledby"]) ELSE <<>>
      IN  (\E k \in 1..Len(ids) : ids[k] # <<>> /\ getElementById(dom, ids[k]) = 0)
            => \/ out.elements[i].result = "fail"
               \/ isElementHidden(dom, n) /\ out.elements[i].result = "warn"

\* C4: a test run whose evaluation of one element raises an exception still
\* lists the Evaluation Result of every other matched element: every element
\* a category selector matches and whose own evaluation produces a result
\* has that result in the list.
ErrorIsolation ==
  out.op = "run" =>
    \A e \in 1..Len(elementsToTest) : \A n \in Elements(dom) :
      LET own == testFunction(elementsToTest[e].test, dom, n, Fresh(dom))
      IN  (/\ \E c \in elementsToTest[e].selector : matchesCompound(dom, n, c)
           /\ ~own.threw
           /\ own.res # <<>>)
            => \E i \in 1..Len(out.elements) :
                  /\ out.elements[i].element = n
                  /\ out.elements[i].test = own.res[1].test

\* C5: for an element, other than a fieldset named by its first-child
\* legend, whose aria-labelledby references at least one existing element
\* with non-empty trimmed text, computeAccessibleName returns the trimmed
\* texts of the referenced elements joined by single spaces in id-list
\* order, whatever its aria-label, label, alt, value, title or text.
LabelledbyJoined ==
  (/\ out.op = "name"
   /\ hasAttribute(dom, out.node, "aria-labelledby")
   /\ namingLegend(dom, out.node) = 0) =>
    LET ids == split(dom[out.node].attrs["aria-labelledby"])
        refs == referencedElements(dom, ids)
        joined[i \in 0..Len(refs)] ==
          IF i = 0 THEN <<>>
          ELSE IF i = 1 THEN trim(textContent(dom, refs[1]))
          ELSE joined[i - 1] \o <<" ">> \o trim(textContent(dom, refs[i]))
    IN  (\E i \in 1..Len(refs) : trim(textContent(dom, refs[i])) # <<>>)
          => ~out.threw /\ out.name = joined[Len(refs)]

FirstNonEmptyRuleWins ==
  (/\ out.op = "name"
   /\ ~out.threw
   /\ out.name = <<>>
   /\ ~(/\ hasAttribute(dom, out.node, "aria-label")
        /\ trim(dom[out.node].attrs["aria-label"]) = <<>>)
   /\ ~(dom[out.node].tag \in {"img", "area"} /\ hasAttribute(dom, out.node, "alt")))
    => ~(/\ hasAttribute(dom, out.node, "title")
         /\ dom[out.node].attrs["title"] # <<>>)

\* C8 as first stated: when aria-labelledby is absent or yields no text and
\* aria-label is present and trims to "", computeAccessibleName returns ""
\* and records the empty-aria-label flag.
BlankAriaLabelBlocks ==
  (/\ out.op = "name"
   /\ hasAttribute(dom, out.node, "aria-label")
   /\ trim(dom[out.node].attrs["aria-label"]) = <<>>
   /\ \/ ~hasAttribute(dom, out.node, "aria-labelledby")
      \/ labelledbyLoop(dom, split(dom[out.node].attrs["aria-labelledby"]),
                        <<>>, <<>>).name = <<>>)
    => /\ ~out.threw
       /\ out.name = <<>>
       /\ flags[out.node].hasEmptyAriaLabel

\* C8: for an element that is not a fieldset named by its first-child
\* legend, when aria-labelledby is absent or yields no text and aria-label
\* is present and trims to "", computeAccessibleName returns "" and records
\* the empty-aria-label flag, even if a label, alt, value, title or text
\* content would supply a name.
BlankAriaLabelBlocksUnlessLegend ==
  (/\ out.op = "name"
   /\ namingLegend(dom, out.node) = 0
   /\ hasAttribute(dom, out.node, "aria-label")
   /\ trim(dom[out.node].attrs["aria-label"]) = <<>>
   /\ \/ ~hasAttribute(dom, out.node, "aria-labelledby")
      \/ labelledbyLoop(dom, split(dom[out.node].attrs["aria-labelledby"]),
                        <<>>, <<>>).name = <<>>)
    => /\ ~out.threw
       /\ out.name = <<>>
       /\ flags[out.node].hasEmptyAriaLabel

\* the name of an element with aria-label=" " and a title was resolved to ""
BlankAriaLabelBlocksSeen ==
  /\ out.op = "name"
  /\ namingLegend(dom, out.node) = 0
  /\ attributeIs(dom, out.node, "aria-label", <<" ">>)
  /\ attributeIs(dom, out.node, "title", CITY)
  /\ out.name = <<>>
  /\ flags[out.node].hasEmptyAriaLabel

\* C9: for a fieldset whose first element child is a legend with non-empty
\* trimmed text, computeAccessibleName returns the legend text whatever
\* aria-label and aria-labelledby say, and when the fieldset also carries
\* aria-label or aria-labelledby the verdict of the fieldset evaluator is
\* Warn.
FieldsetLegendPrecedence ==
  /\ (out.op = "name" /\ namingLegend(dom, out.node) # 0)
       => /\ ~out.threw
          /\ out.name = trim(textContent(dom, namingLegend(dom, out.node)))
  /\ out.op = "run" =>
       \A i \in 1..Len(out.elements) :
         LET n == out.elements[i].element
         IN  (/\ out.elements[i].test = "testFieldset"
              /\ namingLegend(dom, n) # 0
              /\ \/ hasAttribute(dom, n, "aria-label")
                 \/ hasAttribute(dom, n, "aria-labelledby"))
               => out.elements[i].result = "warn"

\* C10: computeAccessibleName called again on the same element of the
\* unchanged document returns the same string, or raises the same
\* exception, and leaves the annotation flags the first call left.
ResolverIdempotent ==
  out.op = "name" =>
    LET again == computeAccessibleName(dom, out.node, flags[out.node])
    IN  /\ again.threw = out.threw
        /\ again.name = out.name
        /\ again.fl = flags[out.node]

\* a name was resolved past a broken reference, which left flags behind
ResolverIdempotentSeen ==
  /\ out.op = "name"
  /\ out.name # <<>>
  /\ flags[out.node].brokenAriaLabelledbyIds # <<>>
  /\ flags[out.node].accessibleNameFromTitleOnly

\* C11: visibility never changes a non-failing result.  A test run and the
\* same run on the document with the visibility of the element switched
\* list the same elements, and where the result of the element as visible
\* is Pass or Warn, the two results have the same verdict and the same
\* description, without the hidden-element suffix.
VisibilityNeutral ==
  [][ out'.op = "run" =>
        LET switched == [dom EXCEPT ![target].display =
                           IF @ = "none" THEN "block" ELSE "none"]
            other   == runAccessibilityTest(switched, flags).elements
            visible == IF isElementHidden(dom, target) THEN other ELSE out'.elements
            hidden  == IF isElementHidden(dom, target) THEN out'.elements ELSE other
        IN  /\ Len(visible) = Len(hidden)
            /\ \A i \in 1..Len(visible) :
                  /\ hidden[i].element = visible[i].element
                  /\ visible[i].result \in {"pass", "warn"} =>
                       /\ hidden[i].result = visible[i].result
                       /\ hidden[i].description = visible[i].description
                       /\ hidden[i].hiddenSuffix = visible[i].hiddenSuffix
                       /\ ~hidden[i].hiddenSuffix
    ]_vars

\* a test run gave a hidden element a Warn that is no downgraded Fail
VisibilityNeutralSeen ==
  /\ out.op = "run"
  /\ \E i \in 1..Len(out.elements) :
        /\ isElementHidden(dom, out.elements[i].element)
        /\ out.elements[i].result = "warn"
        /\ ~out.elements[i].hiddenSuffix

\* C12: one result per element.  In the result list of one test run no
\* element appears in more than one Evaluation Result, even when several
\* category selectors match it.
OneResultPerElement ==
  out.op = "run" =>
    \A i, j \in 1..Len(out.elements) :
      out.elements[i].element = out.elements[j].element => i = j

\* C14: a present but blank aria-label is classified as empty, not missing.
\* The Evaluation Result of a visible element that has an aria-label which
\* is empty or whitespace-only, and no name from aria-labelledby, never
\* carries the missing-accessible-name reason.  (Elements that the claim
\* also covers but that other rules name or excuse are left out: a fieldset
\* named by its legend, an image with a decorative marker, a landmark.)
BlankAriaLabelNotMissing ==
  out.op = "run" =>
    \A i \in 1..Len(out.elements) :
      LET n == out.elements[i].element
      IN  (/\ ~isElementHidden(dom, n)
           /\ hasAttribute(dom, n, "aria-label")
           /\ trim(dom[n].attrs["aria-label"]) = <<>>
           /\ ~hasAttribute(dom, n, "aria-labelledby")
           /\ namingLegend(dom, n) = 0
           /\ out.elements[i].test \notin {"testImage", "testLandmark"})
            => /\ out.elements[i].result = "fail"
               /\ out.elements[i].description # "missing-name"

\* C15: radio grouping is mandatory.  Every Evaluation Result of the radio
\* evaluator for an input[type=radio] that has neither a fieldset ancestor
\* nor an ancestor with role=radiogroup has the verdict Fail, whatever its
\* accessible name.
RadioGroupingMandatory ==
  out.op = "run" =>
    \A i \in 1..Len(out.elements) :
      LET n == out.elements[i].element
      IN  (/\ out.elements[i].test = "testRadioButton"
           /\ ~\E m \in Elements(dom) :
                 /\ isAncestor(dom, m, n)
                 /\ \/ dom[m].tag = "fieldset"
                    \/ attributeIs(dom, m, "role", "radiogroup"))
            => out.elements[i].result = "fail"

\* C16: landmark multiplicity rule.  Whenever the page has two or more
\* landmarks of one type, the type given by the role attribute or implied
\* by the tag, or the landmark is a region or a form, every Evaluation
\* Result of the landmark evaluator for such a landmark without accessible
\* name has the verdict Fail.
LandmarkMultiplicity ==
  out.op = "run" =>
    \A i \in 1..Len(out.elements) :
      LET n == out.elements[i].element
          type == landmarkTypeOf(dom, n)
          OfType == {m \in Elements(dom) : landmarkTypeOf(dom, m) = type}
      IN  (/\ out.elements[i].test = "testLandmark"
           /\ out.elements[i].accessibleName = <<>>
           /\ type \in {"region", "form"} \/ Cardinality(OfType) >= 2)
            => out.elements[i].result = "fail"

\* C17: lone-landmark rule.  An Evaluation Result of the landmark evaluator
\* for a landmark without accessible name that is the only one of its type
\* on the page has the verdict Warn when the type is navigation and Pass
\* when the type is banner, contentinfo or main, and never Fail.
LoneLandmark ==
  out.op = "run" =>
    \A i \in 1..Len(out.elements) :
      LET n == out.elements[i].element
          type == landmarkTypeOf(dom, n)
          OfType == {m \in Elements(dom) : landmarkTypeOf(dom, m) = type}
      IN  (/\ out.elements[i].test = "testLandmark"
           /\ out.elements[i].accessibleName = <<>>
           /\ Cardinality(OfType) = 1)
            => /\ type = "navigation" => out.elements[i].result = "warn"
               /\ type \in {"banner", "contentinfo", "main"}
                    => out.elements[i].result = "pass"

\* C18: form semantics are strict.  An Evaluation Result of the form-control
\* evaluator, of the form evaluator or of the landmark evaluator for a form
\* landmark, for a visible element whose accessible name is filename-like,
\* URL-like or a generic label, has the verdict Fail.
FormSemanticsStrict ==
  out.op = "run" =>
    \A i \in 1..Len(out.elements) :
      LET n == out.elements[i].element
          name == out.elements[i].accessibleName
      IN  (/\ \/ out.elements[i].test \in {"testFormControl", "testForm"}
              \/ /\ out.elements[i].test = "testLandmark"
                 /\ landmarkTypeOf(dom, n) = "form"
           /\ ~isElementHidden(dom, n)
           /\ name # <<>>
           /\ isFilenameInText(name) \/ isUrlLike(name) \/ isGenericLabel(name))
            => out.elements[i].result = "fail"

\* C19: decorative images never fail.  The Evaluation Result of the image
\* evaluator for an img with alt="" or aria-hidden="true" is Pass when the
\* resolved name is empty and Warn when it is not, never Fail, whether the
\* img is hidden or visible; and an img with alt="" and neither aria-label
\* nor aria-labelledby resolves to the empty name and gets Pass.
DecorativeImagesNeverFail ==
  out.op = "run" =>
    \A i \in 1..Len(out.elements) :
      LET n == out.elements[i].element
          name == computeAccessibleName(dom, n, NoFlags).name
      IN  (/\ out.elements[i].test = "testImage"
           /\ \/ attributeIs(dom, n, "alt", <<>>)
              \/ attributeIs(dom, n, "aria-hidden", "true"))
            => /\ out.elements[i].result = IF name = <<>> THEN "pass" ELSE "warn"
               /\ ~out.elements[i].hiddenSuffix
               /\ (/\ attributeIs(dom, n, "alt", <<>>)
                   /\ ~hasAttribute(dom, n, "aria-label")
                   /\ ~hasAttribute(dom, n, "aria-labelledby"))
                    => name = <<>> /\ out.elements[i].result = "pass"

\* a hidden img with alt="" and a name from aria-label got Warn
DecorativeImagesNeverFailSeen ==
  /\ out.op = "run"
  /\ \E i \in 1..Len(out.elements) :
        /\ out.elements[i].test = "testImage"
        /\ isElementHidden(dom, out.elements[i].element)
        /\ attributeIs(dom, out.elements[i].element, "alt", <<>>)
        /\ attributeIs(dom, out.elements[i].element, "aria-label", PAY)
        /\ out.elements[i].result = "warn"

\* C20: filename check precedence in the image evaluator.  The Evaluation
\* Result for a visible img without decorative marker whose resolved name is
\* filename-like is Fail with the filename reason, also when the name
\* starts with "image " or is short on an image map.
FilenamePrecedence ==
  out.op = "run" =>
    \A i \in 1..Len(out.elements) :
      LET n == out.elements[i].element
          name == computeAccessibleName(dom, n, NoFlags).name
      IN  (/\ out.elements[i].test = "testImage"
           /\ ~isElementHidden(dom, n)
           /\ ~attributeIs(dom, n, "alt", <<>>)
           /\ ~attributeIs(dom, n, "aria-hidden", "true")
           /\ name # <<>>
           /\ isFilenameInText(name))
            => /\ out.elements[i].result = "fail"
               /\ out.elements[i].description = "filename"

\* a visible img named "image a.png", which the redundant-wording check
\* would also catch, got Fail for the filename
FilenamePrecedenceSeen ==
  /\ out.op = "run"
  /\ \E i \in 1..Len(out.elements) :
        /\ out.elements[i].test = "testImage"
        /\ ~isElementHidden(dom, out.elements[i].element)
        /\ attributeIs(dom, out.elements[i].element, "aria-label", IMAGE_FILE)
        /\ startsWith(IMAGE_FILE, IMAGE_)
        /\ out.elements[i].result = "fail"
        /\ out.elements[i].description = "filename"

\* C13: every run request is answered.  With either background script,
\* each "runTest" message the port listener received gets exactly one
\* message with action "testResults" posted to the port: never more than
\* one, and eventually one, after which the panel has left its running
\* state once the port is drained.
RunRequestAnswered ==
  \A id \in 1..MaxRuns :
    /\ [](id \in DOMAIN posted => posted[id] <= 1)
    /\ (id \in DOMAIN posted) ~> (id \in DOMAIN posted /\ posted[id] = 1)

\* C29: the recorded broken ids are non-empty only if a referenced id is
\* really missing.  When every id named by the aria-labelledby value of an
\* element exists in the document (the value may have leading, trailing or
\* repeated spaces), computeAccessibleName records no broken id for it and
\* no evaluator reports a broken aria-labelledby for it.
BrokenIdsOnlyIfMissing ==
  LET resolves(n) ==
        /\ hasAttribute(dom, n, "aria-labelledby")
        /\ LET v == dom[n].attrs["aria-labelledby"]
           IN  \A k \in 1..Len(v) : \A m \in k..Len(v) :
                 (/\ \A j \in k..m : ~IsSpace(v[j])
                  /\ k = 1 \/ IsSpace(v[k - 1])
                  /\ m = Len(v) \/ IsSpace(v[m + 1]))
                   => getElementById(dom, SubSeq(v, k, m)) # 0
  IN  /\ (out.op = "name" /\ ~out.threw /\ resolves(out.node))
          => /\ ~flags[out.node].hasBrokenAriaLabelledby
             /\ flags[out.node].brokenAriaLabelledbyIds = <<>>
      /\ out.op = "run" =>
            \A i \in 1..Len(out.elements) :
              resolves(out.elements[i].element)
                => out.elements[i].description # "broken-labelledby"

\* C30: count consistency of a Test Run.  Every Evaluation Result has a
\* verdict among pass, warn and fail; counts.failed, counts.warnings and
\* counts.passing are the numbers of results with verdict fail, warn and
\* pass; they add up to counts.total, which is the length of the list; and
\* the counts the panel computes anew from the list are the same.
CountConsistency ==
  out.op = "run" =>
    LET els == out.elements
        n(v) == Cardinality({i \in 1..Len(els) : els[i].result = v})
        seen == panelCounts(out)
    IN  /\ \A i \in 1..Len(els) : els[i].result \in {"pass", "warn", "fail"}
        /\ out.counts.failed = n("fail")
        /\ out.counts.warnings = n("warn")
        /\ out.counts.passing = n("pass")
        /\ out.counts.failed + out.counts.warnings + out.counts.passing
             = out.counts.total
        /\ out.counts.total = Len(els)
        /\ seen.total = out.counts.total
        /\ seen.fail = out.counts.failed
        /\ seen.warn = out.counts.warnings
        /\ seen.pass = out.counts.passing

\* a run whose list holds a Fail and a Pass
CountConsistencySeen ==
  /\ out.op = "run"
  /\ out.counts.failed >= 1
  /\ out.counts.passing >= 1
  /\ out.counts.total >= 2

\* C27: the ARIA-widget evaluator gives the "Icon-only tab without
\* accessible name" Fail only to a role=tab element that holds aria-hidden
\* content and whose computed accessible name is empty; a tab with a
\* non-empty name that is not punctuation never gets it.
IconOnlyTabOnlyWithoutName ==
  out.op = "run" =>
    \A i \in 1..Len(out.elements) :
      (/\ out.elements[i].test = "testAriaWidget"
       /\ out.elements[i].result = "fail"
       /\ out.elements[i].description = "icon-only-tab")
        => /\ attributeIs(dom, out.elements[i].element, "role", "tab")
           /\ hasAriaHiddenContent(dom, out.elements[i].element)
           /\ out.elements[i].accessibleName = <<>>

\* C28: the button evaluator gives the "missing value attribute" Fail only
\* to input buttons that end up without an accessible name.  A visible
\* input of type button, submit or reset without a value attribute whose
\* name comes from a non-empty, non-generic aria-label or from an
\* aria-labelledby that resolves gets Pass.
MissingValueOnlyWithoutName ==
  out.op = "run" =>
    \A i \in 1..Len(out.elements) :
      LET n == out.elements[i].element
          labelled ==
            \/ /\ hasAttribute(dom, n, "aria-label")
               /\ ~hasAttribute(dom, n, "aria-labelledby")
               /\ trim(dom[n].attrs["aria-label"]) # <<>>
               /\ ~isPunctuation(dom[n].attrs["aria-label"])
               /\ ~isGenericLabel(dom[n].attrs["aria-label"])
               /\ ~isFilenameInText(dom[n].attrs["aria-label"])
            \/ /\ hasAttribute(dom, n, "aria-labelledby")
               /\ dom[n].attrs["aria-labelledby"] = <<"x">>
      IN  (/\ out.elements[i].test = "testButton"
           /\ dom[n].tag = "input"
           /\ typeOf(dom, n) \in {"button", "submit", "reset"}
           /\ ~hasAttribute(dom, n, "value")
           /\ ~isElementHidden(dom, n)
           /\ labelled)
            => /\ out.elements[i].result = "pass"
               /\ out.elements[i].description # "missing-value-attribute"

\* C21: when the panel processes a successful test result that holds at
\* least one issue, an element with verdict fail or warn, the Failures tab
\* is the selected tab afterwards, whichever tab was selected before.
FailuresTabSelected ==
  [][ (/\ toPanel # <<>>
       /\ toPanel' = Tail(toPanel)
       /\ Head(toPanel).action = "testResults"
       /\ Head(toPanel).results.defined
       /\ ~Head(toPanel).results.error
       /\ \E i \in 1..Len(Head(toPanel).results.elements) :
             Head(toPanel).results.elements[i].result \in {"fail", "warn"})
        => panel'.selectedTab = "failures" ]_vars

\* C24: single in-flight run.  From the moment runTest marks the Run
\* button disabled until it is enabled again, no click or key press on it
\* posts another "runTest" message on the port.
SingleInFlightRun ==
  [][ panel.disabled
        => ~(/\ Len(toBackground') = Len(toBackground) + 1
             /\ toBackground'[Len(toBackground')].action = "runTest") ]_vars

\* C25: a navigation reset is not undone by a stale reply.  Once the panel
\* has handled a pageNavigated message, and until the user starts a run,
\* testResults is null and the lists show no results.
NavigationResetKept ==
  panel.navigatedSinceRun
    => /\ panel.testResults = <<>>
       /\ panel.lists = "empty"


\* C22: last removal wins: when the last message the content script received
\* is "removeHighlight" and every timer has fired, no highlight overlay is
\* attached to the page
LastRemovalWins ==
  (received.last = "removeHighlight" /\ timers = <<>>) => overlays = {}

\* C23: at most one highlight overlay is attached to the page at any time,
\* and highlightOverlay is null or is that overlay
AtMostOneOverlay ==
  /\ Cardinality(overlays) <= 1
  /\ highlightOverlay = 0 \/ overlays = {highlightOverlay}

\* a second highlight has replaced the first: two overlays were created and
\* the one attached is the one highlightOverlay refers to
AtMostOneOverlaySeen ==
  /\ created >= 2
  /\ highlightOverlay = created
  /\ overlays = {created}

\* a highlightElement call is waiting for its retry
Deferred ==
  \E i \in DOMAIN timers : timers[i].callback = "highlightElement"

\* C26: the busy flag cannot stick: whenever removalInProgress is true it is
\* later reset to false, and whenever a highlightElement call is deferred to
\* a retry, later no call is deferred any more
BusyFlagReset ==
  /\ removalInProgress ~> ~removalInProgress
  /\ Deferred ~> ~Deferred

\* the flag was set and has been reset while a deferred call still waits for
\* its retry
BusyFlagResetSeen ==
  /\ ~removalInProgress
  /\ Deferred

====
